---- MODULE Spec2Model ----
(***************************************************************************)
(* Pagination core of the Sidemail SDK (src/src/sidemail/client.py):       *)
(* offset_query, cursor_query, their continuations fetch_next/fetch_prev   *)
(* and the lazy iteration of QueryResult (auto_paginate,                   *)
(* auto_paginate_prev).                                                    *)
(*                                                                         *)
(* Python values are represented as follows.                               *)
(*   Optional[T]   None is <<>>, a present value x is <<x>>.               *)
(*   str token     the empty string is <<>>, any other token is a          *)
(*                 non-empty tuple naming the page that issued it.         *)
(*   page mapping  a record of what page.get(key) returns for the keys     *)
(*                 the code reads; a missing key and an explicit null      *)
(*                 both read as None, a missing/None/empty item list       *)
(*                 reads as <<>> (page.get(data_key) or []).               *)
(***************************************************************************)
EXTENDS Integers, Sequences, FiniteSets, TLC

VARIABLES
    engine,     \* "none" before a query, "offset" / "cursor" once a QueryResult exists, "failed" if the first fetch raised
    closure,    \* the variables the continuations close over (page_size, offset, received, next_cur, ...)
    qr,         \* the QueryResult object's fields
    it,         \* the generator objects made by auto_paginate() / auto_paginate_prev()
    firstLog,   \* the fetch_page call made while constructing: <<[args, resp, by]>> or <<>>
    fwdLog,     \* the fetch_page calls made by fetch_next, in order
    bwdLog,     \* the fetch_page calls made by fetch_prev, in order
    last,       \* the most recent continuation invocation: who, the closure before it, what it returned
    api,        \* a call of _handle, Resource(...) or Sidemail(...): its argument and its outcome
    backend,    \* what stands behind fetch_page: any answer at all, or slices of a fixed list
    http        \* a namespace operation of the client: its arguments, the requests it sent, its outcome

vars == <<engine, closure, qr, it, firstLog, fwdLog, bwdLog, last, api, backend, http>>

-----------------------------------------------------------------------------
(* Bounds of the model *)

MaxItems == 2        \* a page carries 0..MaxItems items
MaxFetch == 3        \* fetch_page is called at most MaxFetch times in a run


-----------------------------------------------------------------------------
(* Python values *)

None == <<>>
Some(x) == <<x>>
EmptyStr == <<>>

\* Python truthiness of an Optional[str]: `not cur` is true for None and for ""
Truthy(cur) == cur # None /\ cur[1] # EmptyStr

\* the token the backend puts in field `which` of the i-th page served in direction d
Token(d, i, which) == <<d, i, which>>

\* the k-th item of the i-th page served in direction d
Item(d, i, k) == <<d, i, k>>

ItemsOf(d, i, n) == [k \in 1..n |-> Item(d, i, k)]

\* what `fetch_page(...) or {}` reads as when fetch_page returns None or {}
EmptyPage == [data |-> <<>>, next |-> None, prev |-> None,
              hasMore |-> FALSE, hasPrev |-> FALSE, total |-> None]

Raised == [ok |-> FALSE, page |-> EmptyPage]

Returned(p) == [ok |-> TRUE, page |-> p]

\* What the backend may answer.  A walk names the part of the backend's
\* freedom a specification explores: "forward" and "backward" vary every
\* field the continuation of that direction reads and keep the fields of
\* the other direction present and true; "both" varies the fields of both
\* directions over fewer values.
\* the cursor code reads of a page's item list only whether it is empty
Counts == {0, MaxItems}

Present(d, i, which) == Some(Token(d, i, which))

\* the cursor tokens / flags a page may carry for direction `which`
TokenChoices(walk, d, i, which) ==
    IF walk = "both" THEN {None, Present(d, i, which)}
    ELSE IF (walk = "forward") = (which = "next")
         THEN {None, Some(EmptyStr), Present(d, i, which)}
         ELSE {Present(d, i, which)}

FlagChoices(walk, which) ==
    IF walk = "both" \/ (walk = "forward") = (which = "next") THEN BOOLEAN ELSE {TRUE}

\* every page a cursor backend may answer the first request with
FirstCursorPages(walk) ==
    { [data |-> ItemsOf("first", 0, n), next |-> nx, prev |-> pv, hasMore |-> hm, hasPrev |-> hp,
       total |-> Present("first", 0, "total")] :
        n \in Counts,
        nx \in TokenChoices(walk, "first", 0, "next"),
        pv \in TokenChoices(walk, "first", 0, "prev"),
        hm \in FlagChoices(walk, "next"), hp \in FlagChoices(walk, "prev") }

\* every page a cursor backend may answer the i-th request of direction d
\* ("next" or "prev") with; the fields of the other direction are present
CursorPages(walk, d, i) ==
    { [data |-> ItemsOf(d, i, n),
       next |-> IF d = "next" THEN t ELSE Present(d, i, "next"),
       prev |-> IF d = "prev" THEN t ELSE Present(d, i, "prev"),
       hasMore |-> IF d = "next" THEN h ELSE TRUE,
       hasPrev |-> IF d = "prev" THEN h ELSE TRUE,
       total |-> Present(d, i, "total")] :
        n \in Counts,
        t \in TokenChoices(IF walk = "both" THEN walk ELSE IF d = "next" THEN "forward" ELSE "backward",
                           d, i, d),
        h \in BOOLEAN }

\* every page an offset backend may answer with: only the item list is read
OffsetPages(d, i) ==
    { [EmptyPage EXCEPT !.data = ItemsOf(d, i, n), !.total = Present(d, i, "total")] :
        n \in 0..MaxItems }

Responses(pages) == {Raised} \cup {Returned(p) : p \in pages}

NumFetches == Len(firstLog) + Len(fwdLog) + Len(bwdLog)

PageSizes == {None} \cup {Some(n) : n \in 0..MaxItems}
StartOffsets == {None} \cup {Some(n) : n \in 0..1}

\* cursor_query passes its start cursors and page size on without looking at them
CursorArgs ==
    { [start_cursor_next |-> None, start_cursor_prev |-> None, page_size |-> None],
      [start_cursor_next |-> Some(Token("start", 0, "next")),
       start_cursor_prev |-> Some(Token("start", 0, "prev")),
       page_size |-> Some(MaxItems)] }


\* has_more_key / has_prev_key: configured (TRUE) or None (FALSE)
KeyChoices(walk, which) ==
    IF walk # "both" /\ (walk = "forward") = (which = "next") THEN BOOLEAN ELSE {TRUE}

-----------------------------------------------------------------------------
(* QueryResult.__init__ *)

QueryResult(first_page, fetch_prev, hasMore, hasPrev, paginationCursorNext,
            paginationCursorPrev, offset, limit) ==
    [page |-> first_page,
     fetch_next |-> TRUE,           \* _fetch_next: both engines pass a callable
     fetch_prev |-> fetch_prev,     \* TRUE iff _fetch_prev is a callable (not None)
     data |-> first_page.data,
     total |-> first_page.total,            \* self.page.get("total")
     limit |-> limit,
     offset |-> offset,
     paginationCursorNext |-> paginationCursorNext,
     paginationCursorPrev |-> paginationCursorPrev,
     hasMore |-> hasMore,
     hasPrev |-> hasPrev]

NoQueryResult == QueryResult(EmptyPage, FALSE, FALSE, FALSE, None, None, None, None)

NoClosure == [page_size |-> None, has_more_key |-> TRUE, has_prev_key |-> TRUE,
              offset |-> 0, received |-> 0, next_cur |-> None, prev_cur |-> None]

-----------------------------------------------------------------------------
(* The continuations.  Each takes the closure and the backend's answer to   *)
(* the fetch_page call it may make, and gives what it returns, the closure  *)
(* afterwards and the call it made.                                         *)

ShortCircuit(cl) ==
    [fetched |-> FALSE, raised |-> FALSE, page |-> None, flag |-> FALSE,
     closure |-> cl, args |-> <<>>]

\* a continuation that reports more items for every page at least page_size long
OffsetAdvanceAtLeast(cl, resp) ==
    LET off == cl.offset + cl.received
        args == <<off, cl.page_size>>
    IN  IF ~resp.ok
        THEN [fetched |-> TRUE, raised |-> TRUE, page |-> None, flag |-> FALSE,
              closure |-> [cl EXCEPT !.offset = off], args |-> args]
        ELSE LET n == Len(resp.page.data)
             IN  [fetched |-> TRUE, raised |-> FALSE, page |-> Some(resp.page),
                  flag |-> (cl.page_size # None /\ n >= cl.page_size[1]),
                  closure |-> [cl EXCEPT !.offset = off, !.received = n],
                  args |-> args]

\* a continuation that moves the offset on by one item, whatever it received
OffsetAdvanceByOne(cl, resp) ==
    LET off == cl.offset + 1
        args == <<off, cl.page_size>>
    IN  IF ~resp.ok
        THEN [fetched |-> TRUE, raised |-> TRUE, page |-> None, flag |-> FALSE,
              closure |-> [cl EXCEPT !.offset = off], args |-> args]
        ELSE LET n == Len(resp.page.data)
             IN  [fetched |-> TRUE, raised |-> FALSE, page |-> Some(resp.page),
                  flag |-> (cl.page_size # None /\ n = cl.page_size[1]),
                  closure |-> [cl EXCEPT !.offset = off, !.received = n],
                  args |-> args]

\* offset_query.fetch_next past its early return: advance the offset, fetch, count
OffsetAdvance(cl, resp) ==
    LET off == cl.offset + cl.received      \* offset += received
        args == <<off, cl.page_size>>
    IN  IF ~resp.ok                         \* fetch_page raised: received keeps its value
        THEN [fetched |-> TRUE, raised |-> TRUE, page |-> None, flag |-> FALSE,
              closure |-> [cl EXCEPT !.offset = off], args |-> args]
        ELSE LET n == Len(resp.page.data)
             IN  [fetched |-> TRUE, raised |-> FALSE, page |-> Some(resp.page),
                  flag |-> (cl.page_size # None /\ n = cl.page_size[1]),
                  closure |-> [cl EXCEPT !.offset = off, !.received = n],
                  args |-> args]

\* a continuation that stops only on an empty page
OffsetFetchNextStopsOnEmpty(cl, resp) ==
    IF cl.page_size # None /\ cl.received = 0
    THEN ShortCircuit(cl)
    ELSE OffsetAdvance(cl, resp)

\* offset_query.fetch_next
OffsetFetchNext(cl, resp) ==
    IF cl.page_size # None /\ cl.received < cl.page_size[1]
    THEN ShortCircuit(cl)
    ELSE OffsetAdvance(cl, resp)

\* a forward fetch that forgets to store the token of the page it fetched
CursorAdvanceNextKeepsToken(cl, resp) ==
    LET args == <<cl.next_cur, None, cl.page_size>>
    IN  IF ~resp.ok
        THEN [fetched |-> TRUE, raised |-> TRUE, page |-> None, flag |-> FALSE,
              closure |-> cl, args |-> args]
        ELSE [fetched |-> TRUE, raised |-> FALSE, page |-> Some(resp.page),
              flag |-> IF cl.has_more_key THEN resp.page.hasMore
                                          ELSE resp.page.next # None,
              closure |-> cl,
              args |-> args]

\* a forward fetch that sends the stored backward token along
CursorAdvanceNextSendsBoth(cl, resp) ==
    LET args == <<cl.next_cur, cl.prev_cur, cl.page_size>>
    IN  IF ~resp.ok
        THEN [fetched |-> TRUE, raised |-> TRUE, page |-> None, flag |-> FALSE,
              closure |-> cl, args |-> args]
        ELSE [fetched |-> TRUE, raised |-> FALSE, page |-> Some(resp.page),
              flag |-> IF cl.has_more_key THEN resp.page.hasMore
                                          ELSE resp.page.next # None,
              closure |-> [cl EXCEPT !.next_cur = resp.page.next],
              args |-> args]

\* a forward fetch that takes an empty token for no token when no has-more
\* field is configured
CursorAdvanceNextTruthyToken(cl, resp) ==
    LET args == <<cl.next_cur, None, cl.page_size>>
    IN  IF ~resp.ok
        THEN [fetched |-> TRUE, raised |-> TRUE, page |-> None, flag |-> FALSE,
              closure |-> cl, args |-> args]
        ELSE [fetched |-> TRUE, raised |-> FALSE, page |-> Some(resp.page),
              flag |-> IF cl.has_more_key THEN resp.page.hasMore
                                          ELSE Truthy(resp.page.next),
              closure |-> [cl EXCEPT !.next_cur = resp.page.next],
              args |-> args]

\* cursor_query.fetch_next past its early return: fetch with the stored token, store the new one
CursorAdvanceNext(cl, resp) ==
    LET args == <<cl.next_cur, None, cl.page_size>>
    IN  IF ~resp.ok
        THEN [fetched |-> TRUE, raised |-> TRUE, page |-> None, flag |-> FALSE,
              closure |-> cl, args |-> args]
        ELSE [fetched |-> TRUE, raised |-> FALSE, page |-> Some(resp.page),
              flag |-> IF cl.has_more_key THEN resp.page.hasMore
                                          ELSE resp.page.next # None,
              closure |-> [cl EXCEPT !.next_cur = resp.page.next],
              args |-> args]

\* a continuation without the early return
CursorFetchNextAlwaysFetches(cl, resp) == CursorAdvanceNext(cl, resp)

\* cursor_query.fetch_next
CursorFetchNext(cl, resp) ==
    IF ~Truthy(cl.next_cur)
    THEN ShortCircuit(cl)
    ELSE CursorAdvanceNext(cl, resp)

\* a backward fetch that passes the stored token as the forward cursor
CursorAdvancePrevAsNext(cl, resp) ==
    LET args == <<cl.prev_cur, None, cl.page_size>>
    IN  IF ~resp.ok
        THEN [fetched |-> TRUE, raised |-> TRUE, page |-> None, flag |-> FALSE,
              closure |-> cl, args |-> args]
        ELSE [fetched |-> TRUE, raised |-> FALSE, page |-> Some(resp.page),
              flag |-> IF cl.has_prev_key THEN resp.page.hasPrev
                                          ELSE resp.page.prev # None,
              closure |-> [cl EXCEPT !.prev_cur = resp.page.prev],
              args |-> args]

\* a backward fetch that stores the page's forward token as well
CursorAdvancePrevStoresNext(cl, resp) ==
    LET args == <<None, cl.prev_cur, cl.page_size>>
    IN  IF ~resp.ok
        THEN [fetched |-> TRUE, raised |-> TRUE, page |-> None, flag |-> FALSE,
              closure |-> cl, args |-> args]
        ELSE [fetched |-> TRUE, raised |-> FALSE, page |-> Some(resp.page),
              flag |-> IF cl.has_prev_key THEN resp.page.hasPrev
                                          ELSE resp.page.prev # None,
              closure |-> [cl EXCEPT !.prev_cur = resp.page.prev,
                                     !.next_cur = resp.page.next],
              args |-> args]

\* cursor_query.fetch_prev past its early return
CursorAdvancePrev(cl, resp) ==
    LET args == <<None, cl.prev_cur, cl.page_size>>
    IN  IF ~resp.ok
        THEN [fetched |-> TRUE, raised |-> TRUE, page |-> None, flag |-> FALSE,
              closure |-> cl, args |-> args]
        ELSE [fetched |-> TRUE, raised |-> FALSE, page |-> Some(resp.page),
              flag |-> IF cl.has_prev_key THEN resp.page.hasPrev
                                          ELSE resp.page.prev # None,
              closure |-> [cl EXCEPT !.prev_cur = resp.page.prev],
              args |-> args]

\* cursor_query.fetch_prev
CursorFetchPrev(cl, resp) ==
    IF ~Truthy(cl.prev_cur)
    THEN ShortCircuit(cl)
    ELSE CursorAdvancePrev(cl, resp)

\* QueryResult._fetch_next: the closure the engine handed to the QueryResult
FetchNext(eng, cl, resp) ==
    IF eng = "offset" THEN OffsetFetchNext(cl, resp) ELSE CursorFetchNext(cl, resp)

\* QueryResult._fetch_prev (cursor engine only)
FetchPrev(eng, cl, resp) == CursorFetchPrev(cl, resp)

-----------------------------------------------------------------------------
(* The generators.  A generator frame has the fields pos, idx, items, out,  *)
(* status, serial and since:                                                *)
(* pos "data" is the loop over self.data, pos "items" the loop over the     *)
(* local `items`, idx the number of elements that loop has yielded, out     *)
(* everything the consumer has been handed, status "run", "stopped"         *)
(* (StopIteration) or "raised" (an exception left the generator).  The      *)
(* QueryResult has one consumer at a time, which drops its generator when   *)
(* it makes a new one by calling auto_paginate() (auto_paginate_prev())     *)
(* again; serial is 0 while no generator has been made, 1 for the first     *)
(* generator and 2 for every later one; since is the number of              *)
(* continuation fetches of its direction made before the generator was.     *)

NewAutoPaginate(serial, since) ==
    [serial |-> serial, since |-> since, pos |-> "data", idx |-> 0, items |-> <<>>,
     out |-> <<>>, status |-> "run"]

NewAutoPaginatePrev(serial, since) ==
    [serial |-> serial, since |-> since, pos |-> "items", idx |-> 0, items |-> <<>>,
     out |-> <<>>, status |-> "run"]

Yield(self, x) == [self EXCEPT !.idx = @ + 1, !.out = Append(@, x)]

Stop(self) == [self EXCEPT !.status = "stopped"]

\* a loop body that tests the new flag before it yields the page just fetched
ContinueDropsLastPage(self, flag, r) ==
    IF r.raised
    THEN [gen |-> [self EXCEPT !.status = "raised"], flag |-> flag, invoked |-> TRUE]
    ELSE IF r.page = None \/ r.page[1].data = <<>> \/ ~r.flag
    THEN [gen |-> Stop(self), flag |-> r.flag, invoked |-> TRUE]
    ELSE [gen |-> [self EXCEPT !.pos = "items", !.items = r.page[1].data, !.idx = 1,
                               !.out = Append(@, r.page[1].data[1])],
          flag |-> r.flag, invoked |-> TRUE]

\* a loop body that ends the iteration quietly when the fetch raises
ContinueSwallowsError(self, flag, r) ==
    IF r.raised \/ r.page = None
    THEN [gen |-> Stop(self), flag |-> r.flag, invoked |-> TRUE]
    ELSE LET items == r.page[1].data
         IN  IF items = <<>>
             THEN [gen |-> Stop(self), flag |-> r.flag, invoked |-> TRUE]
             ELSE [gen |-> [self EXCEPT !.pos = "items", !.items = items, !.idx = 1,
                                        !.out = Append(@, items[1])],
                   flag |-> r.flag, invoked |-> TRUE]

\* a loop body that goes on to the next fetch after an empty page
ContinuePastEmptyPage(self, flag, r) ==
    IF r.raised
    THEN [gen |-> [self EXCEPT !.status = "raised"], flag |-> flag, invoked |-> TRUE]
    ELSE IF r.page = None
    THEN [gen |-> Stop(self), flag |-> r.flag, invoked |-> TRUE]
    ELSE LET items == r.page[1].data
         IN  IF items = <<>>
             THEN [gen |-> [self EXCEPT !.pos = "items", !.items = items, !.idx = 0],
                   flag |-> r.flag, invoked |-> TRUE]
             ELSE [gen |-> [self EXCEPT !.pos = "items", !.items = items, !.idx = 1,
                                        !.out = Append(@, items[1])],
                   flag |-> r.flag, invoked |-> TRUE]

\* the body of the while loop of auto_paginate / auto_paginate_prev, given
\* what the continuation did (r) and the flag before the call
Continue(self, flag, r) ==
    IF r.raised
    THEN [gen |-> [self EXCEPT !.status = "raised"], flag |-> flag, invoked |-> TRUE]
    ELSE IF r.page = None                       \* not isinstance(nxt, Mapping)
    THEN [gen |-> Stop(self), flag |-> r.flag, invoked |-> TRUE]
    ELSE LET items == r.page[1].data
         IN  IF items = <<>>                    \* if not items: return
             THEN [gen |-> Stop(self), flag |-> r.flag, invoked |-> TRUE]
             ELSE [gen |-> [self EXCEPT !.pos = "items", !.items = items, !.idx = 1,
                                        !.out = Append(@, items[1])],
                   flag |-> r.flag, invoked |-> TRUE]

\* a generator that goes straight to the continuation pages
AutoPaginateSkipsData(self, q, r) ==
    IF self.pos = "items" /\ self.idx < Len(self.items)
    THEN [gen |-> Yield(self, self.items[self.idx + 1]), flag |-> q.hasMore, invoked |-> FALSE]
    ELSE IF ~(q.hasMore /\ q.fetch_next)
    THEN [gen |-> Stop(self), flag |-> q.hasMore, invoked |-> FALSE]
    ELSE Continue(self, q.hasMore, r)

\* a generator whose loop tests only that a continuation exists
AutoPaginateIgnoresHasMore(self, q, r) ==
    IF self.pos = "data" /\ self.idx < Len(q.data)
    THEN [gen |-> Yield(self, q.data[self.idx + 1]), flag |-> q.hasMore, invoked |-> FALSE]
    ELSE IF self.pos = "items" /\ self.idx < Len(self.items)
    THEN [gen |-> Yield(self, self.items[self.idx + 1]), flag |-> q.hasMore, invoked |-> FALSE]
    ELSE IF ~q.fetch_next
    THEN [gen |-> Stop(self), flag |-> q.hasMore, invoked |-> FALSE]
    ELSE Continue(self, q.hasMore, r)

\* QueryResult.auto_paginate: one resumption of the generator by next();
\* r is what self._fetch_next() does if this resumption invokes it
AutoPaginate(self, q, r) ==
    IF self.pos = "data" /\ self.idx < Len(q.data)
    THEN [gen |-> Yield(self, q.data[self.idx + 1]), flag |-> q.hasMore, invoked |-> FALSE]
    ELSE IF self.pos = "items" /\ self.idx < Len(self.items)
    THEN [gen |-> Yield(self, self.items[self.idx + 1]), flag |-> q.hasMore, invoked |-> FALSE]
    ELSE IF ~(q.hasMore /\ q.fetch_next)
    THEN [gen |-> Stop(self), flag |-> q.hasMore, invoked |-> FALSE]
    ELSE Continue(self, q.hasMore, r)

\* QueryResult.auto_paginate_prev: one resumption of the generator by next()
AutoPaginatePrev(self, q, r) ==
    IF self.idx < Len(self.items)
    THEN [gen |-> Yield(self, self.items[self.idx + 1]), flag |-> q.hasPrev, invoked |-> FALSE]
    ELSE IF ~(q.hasPrev /\ q.fetch_prev)
    THEN [gen |-> Stop(self), flag |-> q.hasPrev, invoked |-> FALSE]
    ELSE Continue(self, q.hasPrev, r)

-----------------------------------------------------------------------------
(* Values of the dispatcher, the wrapper and the client constructor.  A     *)
(* Python value is a record [t, v]: t names its type, v holds its content.  *)
(* A dict is the sequence of its <<key, value>> pairs in insertion order,   *)
(* its keys pairwise distinct.                                              *)

Null == [t |-> "NoneType", v |-> <<>>]
Bool(b) == [t |-> "bool", v |-> b]
Num(n) == [t |-> "int", v |-> n]
Str(s) == [t |-> "str", v |-> s]
List(xs) == [t |-> "list", v |-> xs]
Dict(pairs) == [t |-> "dict", v |-> pairs]

\* bool(value)
PyTruthy(value) ==
    CASE value.t = "NoneType" -> FALSE
      [] value.t = "bool" -> value.v
      [] value.t = "int" -> value.v # 0
      [] value.t = "str" -> value.v # ""
      [] value.t \in {"list", "dict", "Resource"} -> value.v # <<>>
      [] OTHER -> TRUE

\* a or b
PyOr(a, b) == IF PyTruthy(a) THEN a ELSE b

KeysOf(pairs) == {pairs[i][1] : i \in 1..Len(pairs)}

\* mapping.get(key): the value under key, None when the key is missing
Get(pairs, key) ==
    IF key \in KeysOf(pairs)
    THEN pairs[CHOOSE i \in 1..Len(pairs) : pairs[i][1] = key][2]
    ELSE Null

\* dict.__setitem__: a key already present keeps its place
SetItem(pairs, key, value) ==
    IF key \in KeysOf(pairs)
    THEN [i \in 1..Len(pairs) |-> IF pairs[i][1] = key THEN <<key, value>> ELSE pairs[i]]
    ELSE Append(pairs, <<key, value>>)

\* a call that has not been made, and an outcome that is not there yet
Pending == [kind |-> "pending"]
NoApiCall == [op |-> "none", arg |-> Null, outcome |-> Pending, clients |-> 0]
Return(value) == [kind |-> "return", value |-> value]
Raise(exc) == [kind |-> "raise", exc |-> exc]

-----------------------------------------------------------------------------
(* _safe_attr, _wrap_any, Resource *)

\* the keys the objects of the model are made of, and what str.isidentifier
\* and keyword.iskeyword answer for them
Keys == {"id", "class", "class_", "1abc"}
IsIdentifier(name) ==
    name \in {"id", "class", "class_", "ok", "developerMessage", "errorCode", "moreInfo"}
IsKeyword(name) == name \in {"class"}

\* a name mangled only when it is a keyword
SafeAttrKeywordsOnly(name) ==
    IF IsKeyword(name) THEN name \o "_" ELSE name

\* _safe_attr
SafeAttr(name) ==
    IF ~IsIdentifier(name) \/ IsKeyword(name) THEN name \o "_" ELSE name

RECURSIVE WrapAny(_)
RECURSIVE WrapItems(_, _)

\* the loop of Resource.__init__: super().__setitem__(_safe_attr(str(k)), _wrap_any(v))
WrapItems(pairs, items) ==
    IF pairs = <<>> THEN items
    ELSE WrapItems(Tail(pairs),
                   SetItem(items, SafeAttr(Head(pairs)[1]), WrapAny(Head(pairs)[2])))

\* Resource(data): a dict of the wrapped values under the safe names, and
\* _raw, a copy of data
Resource(data) ==
    [t |-> "Resource", v |-> WrapItems(data.v, <<>>), raw |-> Dict(data.v)]

\* _wrap_any
WrapAny(value) ==
    IF value.t \in {"dict", "Resource"} THEN Resource(value)
    ELSE IF value.t = "list" THEN List([i \in 1..Len(value.v) |-> WrapAny(value.v[i])])
    ELSE value

RECURSIVE Unwind(_)
\* unwind of Resource.to_dict
Unwind(value) ==
    IF value.t = "Resource"
    THEN Dict([i \in 1..Len(value.v) |-> <<value.v[i][1], Unwind(value.v[i][2])>>])
    ELSE IF value.t = "list" THEN List([i \in 1..Len(value.v) |-> Unwind(value.v[i])])
    ELSE value

\* Resource.to_dict
ToDict(self) ==
    Dict([i \in 1..Len(self.v) |-> <<self.v[i][1], Unwind(self.v[i][2])>>])

RECURSIVE Canon(_)
\* a value with every dict in it as the function from its keys to its
\* values: Python's == on dicts does not look at the order of the keys
Canon(value) ==
    IF value.t \in {"dict", "Resource"}
    THEN [t |-> "dict", v |-> [k \in KeysOf(value.v) |-> Canon(Get(value.v, k))]]
    ELSE IF value.t = "list" THEN List([i \in 1..Len(value.v) |-> Canon(value.v[i])])
    ELSE value

\* a == b
PyEq(a, b) == Canon(a) = Canon(b)

MaxDepth == 2        \* objects and lists are nested at most MaxDepth deep

Scalars == {Null, Num(1), Str("x")}

RECURSIVE JsonValues(_)
RECURSIVE JsonObjects(_)

\* the JSON objects nested at most d deep: no key, one key, two keys in
\* either order
JsonObjects(d) ==
    LET inner == JsonValues(d - 1)
    IN  {Dict(<<>>)}
        \cup {Dict(<<<<k, x>>>>) : k \in Keys, x \in inner}
        \cup {Dict(<<<<kx[1], Num(1)>>, <<kx[2], kx[3]>>>>) :
                 kx \in {y \in Keys \X Keys \X inner : y[1] # y[2]}}

\* the JSON values nested at most d deep
JsonValues(d) ==
    IF d = 0 THEN Scalars
    ELSE LET inner == JsonValues(d - 1)
         IN  Scalars \cup {List(<<x>>) : x \in inner}
                     \cup {List(<<Num(1), x>>) : x \in inner}
                     \cup JsonObjects(d)

-----------------------------------------------------------------------------
(* _handle *)

\* SidemailError(message, httpStatus=..., errorCode=..., moreInfo=...): the
\* attributes __init__ sets
SidemailError(message, httpStatus, errorCode, moreInfo) ==
    [class |-> "SidemailError", message |-> message, httpStatus |-> httpStatus,
     errorCode |-> errorCode, moreInfo |-> moreInfo]

\* what payload.get raises when payload is no mapping
AttributeError == [class |-> "AttributeError"]

\* the response bodies of the model
BodyTexts ==
    {"", "plain text", "null", "5", "\"abc\"", "[1]", "[{\"class\": 1}]", "{}",
     "{\"ok\": true}", "{\"class\": 1}",
     "{\"developerMessage\": \"Internal error\"}",
     "{\"developerMessage\": \"Nope\", \"errorCode\": \"E1\", \"moreInfo\": \"see docs\"}",
     "{\"developerMessage\": \"\"}",
     "{\"errorCode\": \"E1\"}"}

Parsed(value) == [ok |-> TRUE, value |-> value]

\* resp.json(): the value a body parses to, ok FALSE when it raises
ParseJson(text) ==
    CASE text = "null" -> Parsed(Null)
      [] text = "5" -> Parsed(Num(5))
      [] text = "\"abc\"" -> Parsed(Str("abc"))
      [] text = "[1]" -> Parsed(List(<<Num(1)>>))
      [] text = "[{\"class\": 1}]" -> Parsed(List(<<Dict(<<<<"class", Num(1)>>>>)>>))
      [] text = "{}" -> Parsed(Dict(<<>>))
      [] text = "{\"ok\": true}" -> Parsed(Dict(<<<<"ok", Bool(TRUE)>>>>))
      [] text = "{\"class\": 1}" -> Parsed(Dict(<<<<"class", Num(1)>>>>))
      [] text = "{\"developerMessage\": \"Internal error\"}"
           -> Parsed(Dict(<<<<"developerMessage", Str("Internal error")>>>>))
      [] text = "{\"developerMessage\": \"Nope\", \"errorCode\": \"E1\", \"moreInfo\": \"see docs\"}"
           -> Parsed(Dict(<<<<"developerMessage", Str("Nope")>>, <<"errorCode", Str("E1")>>,
                            <<"moreInfo", Str("see docs")>>>>))
      [] text = "{\"developerMessage\": \"\"}"
           -> Parsed(Dict(<<<<"developerMessage", Str("")>>>>))
      [] text = "{\"errorCode\": \"E1\"}" -> Parsed(Dict(<<<<"errorCode", Str("E1")>>>>))
      [] OTHER -> [ok |-> FALSE, value |-> Null]

Statuses == {199, 200, 204, 299, 300, 401, 403, 404, 500}

\* an httpx.Response: resp.content is resp.text encoded, empty when the text is
HttpResponses == [status_code : Statuses, text : BodyTexts]

\* the payload _handle reads the error from: the parsed body, or a mapping
\* made of the raw text
ErrorPayload(resp) ==
    IF ParseJson(resp.text).ok
    THEN ParseJson(resp.text).value
    ELSE Dict(<<<<"developerMessage", PyOr(Str(resp.text), Str("Unknown error"))>>>>)

\* a dispatcher that returns the parsed body as it is
HandleUnwrapped(resp) ==
    IF 200 <= resp.status_code /\ resp.status_code < 300
    THEN IF resp.text # ""
         THEN IF ParseJson(resp.text).ok
              THEN Return(ParseJson(resp.text).value)
              ELSE Return(Str(resp.text))
         ELSE Return(Null)
    ELSE LET payload == ErrorPayload(resp)
         IN  IF payload.t # "dict"
             THEN Raise(AttributeError)
             ELSE Raise(SidemailError(
                      PyOr(Get(payload.v, "developerMessage"),
                           Str("HTTP " \o ToString(resp.status_code))),
                      Num(resp.status_code),
                      Get(payload.v, "errorCode"),
                      Get(payload.v, "moreInfo")))

\* _handle
Handle(resp) ==
    IF 200 <= resp.status_code /\ resp.status_code < 300
    THEN IF resp.text # ""                              \* if resp.content
         THEN IF ParseJson(resp.text).ok
              THEN Return(WrapAny(ParseJson(resp.text).value))
              ELSE Return(Str(resp.text))
         ELSE Return(Null)
    ELSE LET payload == ErrorPayload(resp)
         IN  IF payload.t # "dict"                      \* payload.get: no such attribute
             THEN Raise(AttributeError)
             ELSE Raise(SidemailError(
                      PyOr(Get(payload.v, "developerMessage"),
                           Str("HTTP " \o ToString(resp.status_code))),
                      Num(resp.status_code),
                      Get(payload.v, "errorCode"),
                      Get(payload.v, "moreInfo")))

-----------------------------------------------------------------------------
(* Sidemail.__init__ *)

\* a caller's transport, and the one __init__ makes itself
GivenSession == [t |-> "Client", v |-> "session"]
OwnClient == [t |-> "Client", v |-> "httpx.Client()"]

\* api_key, the value of os.getenv("SIDEMAIL_API_KEY") (None when unset), session
ConstructorArgs ==
    [api_key : {Null, Str(""), Str("key")},
     env : {Null, Str(""), Str("env-key")},
     session : {Null, GivenSession}]

MissingApiKey ==
    SidemailError(Str("Missing API key. Pass api_key=... or set SIDEMAIL_API_KEY."),
                  Null, Null, Null)

\* a __init__ that reads the environment before the argument
NewSidemailEnvFirst(args) ==
    LET key == PyOr(args.env, args.api_key)
    IN  IF ~PyTruthy(key)
        THEN [outcome |-> Raise(MissingApiKey), clients |-> 0]
        ELSE [outcome |-> Return([t |-> "Sidemail", api_key |-> key,
                                  http |-> PyOr(args.session, OwnClient)]),
              clients |-> IF PyTruthy(args.session) THEN 0 ELSE 1]

\* Sidemail(api_key, session=...): the outcome and the number of httpx.Client()
\* it has constructed
NewSidemail(args) ==
    LET key == PyOr(args.api_key, args.env)
    IN  IF ~PyTruthy(key)
        THEN [outcome |-> Raise(MissingApiKey), clients |-> 0]
        ELSE [outcome |-> Return([t |-> "Sidemail", api_key |-> key,
                                  http |-> PyOr(args.session, OwnClient)]),
              clients |-> IF PyTruthy(args.session) THEN 0 ELSE 1]

-----------------------------------------------------------------------------
(* The namespace operations.  The keyword arguments of a call are a record  *)
(* of entries, one for each key the code looks at and one (filters) for all *)
(* the others: an entry is <<>> when the key is absent and <<v>> when it is *)
(* present with the value v.  A request payload is such a record too.       *)

Absent == <<>>
Given(v) == <<v>>

\* params.pop(key, None) / params.get(key)
Pop(entry) == IF entry = Absent THEN None ELSE entry[1]

NoParams ==
    [filters |-> <<>>, limit |-> Absent,
     paginationCursorNext |-> Absent, paginationCursorPrev |-> Absent]

\* the keyword arguments email.search / contacts.list are called with
CursorParams ==
    { NoParams,
      [filters |-> <<<<"status", "sent">>>>, limit |-> Given(Some(MaxItems)),
       paginationCursorNext |-> Given(Some(Token("start", 0, "next"))),
       paginationCursorPrev |-> Given(Some(Token("start", 0, "prev")))],
      [filters |-> <<<<"status", "sent">>>>, limit |-> Absent,
       paginationCursorNext |-> Given(Some(Token("start", 0, "next"))),
       paginationCursorPrev |-> Absent],
      [filters |-> <<>>, limit |-> Given(None),
       paginationCursorNext |-> Given(Some(EmptyStr)),
       paginationCursorPrev |-> Given(Some(Token("start", 0, "prev")))] }

\* a search that leaves the caller's cursors in the base payload
SearchKeepsCursors(params) ==
    [start_cursor_next |-> Pop(params.paginationCursorNext),
     start_cursor_prev |-> Pop(params.paginationCursorPrev),
     page_size |-> Pop(params.limit),
     base_payload |-> params]

\* _EmailAPI.search / _ContactsAPI.list up to the cursor_query call: the
\* arguments of cursor_query and the base payload the fetch closure keeps
Search(params) ==
    [start_cursor_next |-> Pop(params.paginationCursorNext),
     start_cursor_prev |-> Pop(params.paginationCursorPrev),
     page_size |-> Pop(params.limit),
     base_payload |-> [params EXCEPT !.paginationCursorNext = Absent,
                                     !.paginationCursorPrev = Absent]]

\* the payload the fetch closure of search / list sends for one fetch_page call
Fetch(base_payload, next_cursor, prev_cursor, limit_) ==
    LET p0 == base_payload                                           \* dict(base_payload)
        p1 == IF limit_ # None THEN [p0 EXCEPT !.limit = Given(limit_)] ELSE p0
        p2 == IF Truthy(next_cursor)
              THEN [p1 EXCEPT !.paginationCursorNext = Given(next_cursor)] ELSE p1
        p3 == IF Truthy(prev_cursor)
              THEN [p2 EXCEPT !.paginationCursorPrev = Given(prev_cursor)] ELSE p2
    IN  p3

CursorOps == {"email.search", "contacts.list"}

\* the operations that send one request and hand its response to _handle
DirectOps ==
    {"email.send", "email.get", "email.delete",
     "contacts.create_or_update", "contacts.find", "contacts.delete",
     "messenger.get", "messenger.create", "messenger.update", "messenger.delete",
     "domains.list", "domains.create", "domains.delete",
     "project.create", "project.get", "project.update", "project.delete"}

\* the httpx.Client method an operation calls
MethodOf(op) ==
    CASE op \in {"email.send", "email.search", "contacts.create_or_update", "messenger.create",
                 "domains.create", "project.create"} -> "POST"
      [] op \in {"email.get", "contacts.find", "contacts.list", "messenger.get", "domains.list",
                 "project.get"} -> "GET"
      [] op \in {"messenger.update", "project.update"} -> "PATCH"
      [] OTHER -> "DELETE"

\* the field email.get / contacts.find take out of the result
FieldOf(op) == IF op = "email.get" THEN "email" ELSE "contact"

\* what the transport does with a request: it raises, or it returns a response
TransportError == [kind |-> "error"]
Answered(resp) == [kind |-> "response", resp |-> resp]

TransportAnswers ==
    {TransportError}
        \cup {Answered([status_code |-> sc, text |-> tx]) :
                 sc \in {200, 500}, tx \in {"", "plain text", "[1]", "{\"ok\": true}"}}

\* the exception the transport raised, passed on as it is
TransportException == [class |-> "httpx.TransportError"]

Request(op) == [method |-> MethodOf(op), op |-> op]

\* an operation that sends its request once more after a failure
OperationRetriesOnce(op, answers) ==
    LET failed(a) == a.kind = "error" \/ Handle(a.resp).kind = "raise"
        n == IF failed(answers[1]) THEN 2 ELSE 1
        answer == answers[n]
        out == IF answer.kind = "error" THEN Raise(TransportException) ELSE Handle(answer.resp)
    IN  [sent |-> [i \in 1..n |-> Request(op)],
         outcome |-> IF op \in {"email.get", "contacts.find"} /\ out.kind = "return"
                     THEN IF out.value.t = "Resource"
                          THEN Return(Get(out.value.v, FieldOf(op)))
                          ELSE out
                     ELSE out]

\* a non-paginated operation: one call of self._http, its response through
\* _handle; answers are what the transport does with the first request and
\* what it would do with a second
Operation(op, answers) ==
    LET answer == answers[1]
        out == IF answer.kind = "error" THEN Raise(TransportException) ELSE Handle(answer.resp)
    IN  [sent |-> <<Request(op)>>,
         outcome |-> IF op \in {"email.get", "contacts.find"} /\ out.kind = "return"
                     THEN IF out.value.t = "Resource"        \* isinstance(out, dict)
                          THEN Return(Get(out.value.v, FieldOf(op)))
                          ELSE out
                     ELSE out]

NoOperation == [op |-> "none", params |-> NoParams, base_payload |-> NoParams,
                answers |-> <<>>, sent |-> <<>>, outcome |-> Pending]

-----------------------------------------------------------------------------
(* State machine *)

NoCall == [op |-> "none", by |-> 0, pre |-> NoClosure, raised |-> FALSE,
           page |-> None, flag |-> FALSE, fetched |-> FALSE]

\* a backend that may answer a request with any page, or raise
AnyBackend == [kind |-> "any", list |-> <<>>]

\* a continuation invocation: by is the serial number of the generator that
\* made it, 0 when the caller invoked the continuation itself
Call(op, by, pre, r) ==
    [op |-> op, by |-> by, pre |-> pre, raised |-> r.raised,
     page |-> r.page, flag |-> r.flag, fetched |-> r.fetched]

LogEntry(args, resp, by) == [args |-> args, resp |-> resp, by |-> by]

Init ==
    /\ engine = "none"
    /\ closure = NoClosure
    /\ qr = NoQueryResult
    /\ it = [fwd |-> NewAutoPaginate(0, 0), bwd |-> NewAutoPaginatePrev(0, 0)]
    /\ firstLog = <<>>
    /\ fwdLog = <<>>
    /\ bwdLog = <<>>
    /\ last = NoCall
    /\ api = NoApiCall
    /\ backend = AnyBackend
    /\ http = NoOperation

\* offset_query(fetch_page, start_offset=..., page_size=...)
OffsetQuery ==
    /\ engine = "none"
    /\ \E start_offset \in StartOffsets, ps \in PageSizes,
          resp \in Responses(OffsetPages("first", 0)) :
          LET off == IF start_offset = None THEN 0 ELSE start_offset[1]   \* int(start_offset or 0)
              first == resp.page
              rcv == Len(first.data)
              hasMore == ps # None /\ rcv = ps[1]
          IN  /\ firstLog' = <<LogEntry(<<off, ps>>, resp, 0)>>
              /\ IF resp.ok
                 THEN /\ engine' = "offset"
                      /\ closure' = [NoClosure EXCEPT !.page_size = ps, !.offset = off,
                                                      !.received = rcv]
                      /\ qr' = QueryResult(first, FALSE, hasMore, FALSE, None, None, None, None)
                 ELSE /\ engine' = "failed"
                      /\ UNCHANGED <<closure, qr>>
    /\ UNCHANGED <<it, fwdLog, bwdLog, last, api, backend, http>>

\* cursor_query(fetch_page, start_cursor_next=..., start_cursor_prev=..., page_size=...,
\*              has_more_key=..., has_prev_key=...)
CursorQuery(walk) ==
    /\ engine = "none"
    /\ \E a \in CursorArgs, hmk \in KeyChoices(walk, "next"), hpk \in KeyChoices(walk, "prev"),
          resp \in Responses(FirstCursorPages(walk)) :
          LET first == resp.page
              has_more_first == IF hmk THEN first.hasMore ELSE first.next # None
              has_prev_first == IF hpk THEN first.hasPrev ELSE first.prev # None
          IN  /\ firstLog' = <<LogEntry(<<a.start_cursor_next, a.start_cursor_prev, a.page_size>>,
                                        resp, 0)>>
              /\ IF resp.ok
                 THEN /\ engine' = "cursor"
                      /\ closure' = [NoClosure EXCEPT !.page_size = a.page_size,
                                                      !.has_more_key = hmk, !.has_prev_key = hpk,
                                                      !.next_cur = first.next,
                                                      !.prev_cur = first.prev]
                      /\ qr' = QueryResult(first, TRUE, has_more_first, has_prev_first,
                                           first.next, first.prev, None, a.page_size)
                 ELSE /\ engine' = "failed"
                      /\ UNCHANGED <<closure, qr>>
    /\ UNCHANGED <<it, fwdLog, bwdLog, last, api, backend, http>>

\* the pages the backend may answer the next request of direction d with
PagesFor(walk, d) ==
    IF engine = "offset" THEN OffsetPages(d, Len(fwdLog) + 1)
    ELSE IF d = "next" THEN CursorPages(walk, d, Len(fwdLog) + 1)
    ELSE CursorPages(walk, d, Len(bwdLog) + 1)

\* the answers to choose from: none is needed when no fetch_page call is made
Answers(walk, d, fetches) == IF fetches THEN Responses(PagesFor(walk, d)) ELSE {Raised}

\* an auto_paginate() that fetches the next page when it is called
CallAutoPaginateEager ==
    /\ engine \in {"offset", "cursor"}
    /\ LET serial == IF it.fwd.serial = 0 THEN 1 ELSE 2
           fetches == qr.hasMore /\ FetchNext(engine, closure, Raised).fetched
                         /\ NumFetches < MaxFetch
       IN  \E resp \in Answers("both", "next", fetches) :
              LET r == FetchNext(engine, closure, resp)
              IN  /\ it' = [it EXCEPT !.fwd = NewAutoPaginate(serial, Len(fwdLog))]
                  /\ closure' = IF fetches THEN r.closure ELSE closure
                  /\ fwdLog' = IF fetches THEN Append(fwdLog, LogEntry(r.args, resp, serial))
                                          ELSE fwdLog
    /\ UNCHANGED <<engine, qr, firstLog, bwdLog, last, api, backend, http>>

\* the caller makes a new generator: qr.auto_paginate()
CallAutoPaginate ==
    /\ engine \in {"offset", "cursor"}
    /\ it' = [it EXCEPT !.fwd = NewAutoPaginate(IF it.fwd.serial = 0 THEN 1 ELSE 2, Len(fwdLog))]
    /\ UNCHANGED <<engine, closure, qr, firstLog, fwdLog, bwdLog, last, api, backend, http>>

\* the caller makes a new generator: qr.auto_paginate_prev()
CallAutoPaginatePrev ==
    /\ engine \in {"offset", "cursor"}
    /\ it' = [it EXCEPT !.bwd = NewAutoPaginatePrev(IF it.bwd.serial = 0 THEN 1 ELSE 2, Len(bwdLog))]
    /\ UNCHANGED <<engine, closure, qr, firstLog, fwdLog, bwdLog, last, api, backend, http>>

\* a next() that makes the page it fetched the current page of the Query Result
NextForwardTurnsPage(walk) ==
    /\ engine \in {"offset", "cursor"}
    /\ it.fwd.serial > 0
    /\ it.fwd.status = "run"
    /\ LET r0 == FetchNext(engine, closure, Raised)
           fetches == AutoPaginate(it.fwd, qr, r0).invoked /\ r0.fetched
       IN  /\ fetches => NumFetches < MaxFetch
           /\ \E resp \in Answers(walk, "next", fetches) :
                LET r == FetchNext(engine, closure, resp)
                    step == AutoPaginate(it.fwd, qr, r)
                IN  /\ it' = [it EXCEPT !.fwd = step.gen]
                    /\ qr' = IF step.invoked /\ r.page # None
                             THEN [qr EXCEPT !.hasMore = step.flag, !.page = r.page[1],
                                             !.total = r.page[1].total,
                                             !.paginationCursorNext = r.page[1].next]
                             ELSE [qr EXCEPT !.hasMore = step.flag]
                    /\ closure' = IF step.invoked THEN r.closure ELSE closure
                    /\ fwdLog' = IF fetches
                                 THEN Append(fwdLog, LogEntry(r.args, resp, it.fwd.serial))
                                 ELSE fwdLog
                    /\ last' = IF step.invoked
                               THEN Call("fetch_next", it.fwd.serial, closure, r)
                               ELSE last
    /\ UNCHANGED <<engine, firstLog, bwdLog, api, backend, http>>

\* the consumer calls next() on the generator made by qr.auto_paginate()
NextForward(walk) ==
    /\ engine \in {"offset", "cursor"}
    /\ it.fwd.serial > 0
    /\ it.fwd.status = "run"
    /\ LET r0 == FetchNext(engine, closure, Raised)
           fetches == AutoPaginate(it.fwd, qr, r0).invoked /\ r0.fetched
       IN  /\ fetches => NumFetches < MaxFetch
           /\ \E resp \in Answers(walk, "next", fetches) :
                LET r == FetchNext(engine, closure, resp)
                    step == AutoPaginate(it.fwd, qr, r)
                IN  /\ it' = [it EXCEPT !.fwd = step.gen]
                    /\ qr' = [qr EXCEPT !.hasMore = step.flag]
                    /\ closure' = IF step.invoked THEN r.closure ELSE closure
                    /\ fwdLog' = IF fetches
                                 THEN Append(fwdLog, LogEntry(r.args, resp, it.fwd.serial))
                                 ELSE fwdLog
                    /\ last' = IF step.invoked
                               THEN Call("fetch_next", it.fwd.serial, closure, r)
                               ELSE last
    /\ UNCHANGED <<engine, firstLog, bwdLog, api, backend, http>>

\* the consumer calls next() on the generator made by qr.auto_paginate_prev()
NextBackward(walk) ==
    /\ engine \in {"offset", "cursor"}
    /\ it.bwd.serial > 0
    /\ it.bwd.status = "run"
    /\ LET r0 == FetchPrev(engine, closure, Raised)
           fetches == AutoPaginatePrev(it.bwd, qr, r0).invoked /\ r0.fetched
       IN  /\ fetches => NumFetches < MaxFetch
           /\ \E resp \in Answers(walk, "prev", fetches) :
                LET r == FetchPrev(engine, closure, resp)
                    step == AutoPaginatePrev(it.bwd, qr, r)
                IN  /\ it' = [it EXCEPT !.bwd = step.gen]
                    /\ qr' = [qr EXCEPT !.hasPrev = step.flag]
                    /\ closure' = IF step.invoked THEN r.closure ELSE closure
                    /\ bwdLog' = IF fetches
                                 THEN Append(bwdLog, LogEntry(r.args, resp, it.bwd.serial))
                                 ELSE bwdLog
                    /\ last' = IF step.invoked
                               THEN Call("fetch_prev", it.bwd.serial, closure, r)
                               ELSE last
    /\ UNCHANGED <<engine, firstLog, fwdLog, api, backend, http>>

\* the caller invokes the forward continuation itself: qr._fetch_next()
CallFetchNext(walk) ==
    /\ engine \in {"offset", "cursor"}
    /\ LET fetches == FetchNext(engine, closure, Raised).fetched
       IN  /\ fetches => NumFetches < MaxFetch
           /\ \E resp \in Answers(walk, "next", fetches) :
                LET r == FetchNext(engine, closure, resp)
                IN  /\ closure' = r.closure
                    /\ fwdLog' = IF fetches THEN Append(fwdLog, LogEntry(r.args, resp, 0))
                                            ELSE fwdLog
                    /\ last' = Call("fetch_next", 0, closure, r)
    /\ UNCHANGED <<engine, qr, it, firstLog, bwdLog, api, backend, http>>

\* the caller invokes the backward continuation itself: qr._fetch_prev()
CallFetchPrev(walk) ==
    /\ engine = "cursor"
    /\ LET fetches == FetchPrev(engine, closure, Raised).fetched
       IN  /\ fetches => NumFetches < MaxFetch
           /\ \E resp \in Answers(walk, "prev", fetches) :
                LET r == FetchPrev(engine, closure, resp)
                IN  /\ closure' = r.closure
                    /\ bwdLog' = IF fetches THEN Append(bwdLog, LogEntry(r.args, resp, 0))
                                            ELSE bwdLog
                    /\ last' = Call("fetch_prev", 0, closure, r)
    /\ UNCHANGED <<engine, qr, it, firstLog, fwdLog, api, backend, http>>

Next ==
    \/ OffsetQuery
    \/ CursorQuery("both")
    \/ CallAutoPaginate
    \/ CallAutoPaginatePrev
    \/ NextForward("both")
    \/ NextBackward("both")

\* both engines, both directions, a backend of fewer answers
Spec == Init /\ [][Next]_vars

NextFwd ==
    \/ OffsetQuery
    \/ CursorQuery("forward")
    \/ CallAutoPaginate
    \/ NextForward("forward")
    \/ CallFetchNext("forward")

\* both engines walked forward only, every answer the forward code reads
SpecForward == Init /\ [][NextFwd]_vars

NextBwd ==
    \/ CursorQuery("backward")
    \/ CallAutoPaginatePrev
    \/ NextBackward("backward")
    \/ CallFetchPrev("backward")

\* the cursor engine walked backward only, every answer the backward code reads
SpecBackward == Init /\ [][NextBwd]_vars

NextCursor ==
    \/ CursorQuery("forward")
    \/ CursorQuery("backward")
    \/ CallFetchNext("forward")
    \/ CallFetchPrev("backward")

\* the cursor engine, its continuations invoked by the caller in any order,
\* every answer either direction reads
SpecCursor == Init /\ [][NextCursor]_vars

\* email.search(**params) / contacts.list(**params): cursor_query over the
\* fetch closure, has_more_key and has_prev_key at their defaults
CallSearch ==
    /\ engine = "none"
    /\ http = NoOperation
    /\ \E op \in CursorOps, params \in CursorParams, resp \in Responses(FirstCursorPages("both")) :
          LET a == Search(params)
              first == resp.page
          IN  /\ http' = [NoOperation EXCEPT !.op = op, !.params = params,
                                             !.base_payload = a.base_payload]
              /\ firstLog' = <<LogEntry(<<a.start_cursor_next, a.start_cursor_prev, a.page_size>>,
                                        resp, 0)>>
              /\ IF resp.ok
                 THEN /\ engine' = "cursor"
                      /\ closure' = [NoClosure EXCEPT !.page_size = a.page_size,
                                                      !.next_cur = first.next,
                                                      !.prev_cur = first.prev]
                      /\ qr' = QueryResult(first, TRUE, first.hasMore, first.hasPrev,
                                           first.next, first.prev, None, a.page_size)
                 ELSE /\ engine' = "failed"
                      /\ UNCHANGED <<closure, qr>>
    /\ UNCHANGED <<it, fwdLog, bwdLog, last, api, backend>>

\* one of the non-paginated operations
CallOperation ==
    /\ engine = "none"
    /\ http = NoOperation
    /\ \E op \in DirectOps, first \in TransportAnswers, second \in TransportAnswers :
          http' = [NoOperation EXCEPT !.op = op,
                                      !.answers = <<first, second>>,
                                      !.sent = Operation(op, <<first, second>>).sent,
                                      !.outcome = Operation(op, <<first, second>>).outcome]
    /\ UNCHANGED <<engine, closure, qr, it, firstLog, fwdLog, bwdLog, last, api, backend>>

\* the continuations of a search / list result are those of cursor_query
NsFetchNext ==
    /\ http.op \in CursorOps
    /\ CallFetchNext("both")

NsFetchPrev ==
    /\ http.op \in CursorOps
    /\ CallFetchPrev("both")

NextNamespace ==
    \/ CallSearch
    \/ CallOperation
    \/ NsFetchNext
    \/ NsFetchPrev

\* the operations of the client's namespaces over a transport that answers
\* or raises
SpecNamespace == Init /\ [][NextNamespace]_vars

\* one call of the dispatcher, the wrapper or the constructor, not yet made
ApiCall(op, arg) == [op |-> op, arg |-> arg, outcome |-> Pending, clients |-> 0]

PaginationIdle ==
    /\ engine = "none"
    /\ closure = NoClosure
    /\ qr = NoQueryResult
    /\ it = [fwd |-> NewAutoPaginate(0, 0), bwd |-> NewAutoPaginatePrev(0, 0)]
    /\ firstLog = <<>>
    /\ fwdLog = <<>>
    /\ bwdLog = <<>>
    /\ last = NoCall
    /\ backend = AnyBackend
    /\ http = NoOperation

InitApi ==
    /\ PaginationIdle
    /\ api \in {ApiCall("_handle", resp) : resp \in HttpResponses}
               \cup {ApiCall("Resource", data) : data \in JsonObjects(MaxDepth)}
               \cup {ApiCall("Sidemail", args) : args \in ConstructorArgs}

\* _handle(resp)
CallHandle ==
    /\ api.op = "_handle"
    /\ api.outcome = Pending
    /\ api' = [api EXCEPT !.outcome = Handle(api.arg)]
    /\ UNCHANGED <<engine, closure, qr, it, firstLog, fwdLog, bwdLog, last, backend, http>>

\* Resource(data)
CallResource ==
    /\ api.op = "Resource"
    /\ api.outcome = Pending
    /\ api' = [api EXCEPT !.outcome = Return(Resource(api.arg))]
    /\ UNCHANGED <<engine, closure, qr, it, firstLog, fwdLog, bwdLog, last, backend, http>>

\* .to_dict() of the Resource just made; arg stays the mapping it was made from
CallToDict ==
    /\ api.op = "Resource"
    /\ api.outcome.kind = "return"
    /\ api' = [api EXCEPT !.op = "to_dict", !.outcome = Return(ToDict(api.outcome.value))]
    /\ UNCHANGED <<engine, closure, qr, it, firstLog, fwdLog, bwdLog, last, backend, http>>

\* Sidemail(api_key, session=session)
CallSidemail ==
    /\ api.op = "Sidemail"
    /\ api.outcome = Pending
    /\ api' = [api EXCEPT !.outcome = NewSidemail(api.arg).outcome,
                          !.clients = NewSidemail(api.arg).clients]
    /\ UNCHANGED <<engine, closure, qr, it, firstLog, fwdLog, bwdLog, last, backend, http>>

NextApi ==
    \/ CallHandle
    \/ CallResource
    \/ CallToDict
    \/ CallSidemail

\* the dispatcher, the wrapper and the constructor, each applied to one input
SpecApi == InitApi /\ [][NextApi]_vars

-----------------------------------------------------------------------------
(* offset_query over a backend that serves a fixed list by slicing *)

\* the list of a slicing backend
Rows(len) == [k \in 1..len |-> <<"row", k>>]

Min(a, b) == IF a <= b THEN a ELSE b

\* L[o : o + n]
Slice(L, o, n) == SubSeq(L, o + 1, Min(o + n, Len(L)))

\* what fetch_page(o, n) of a slicing backend returns
SlicePage(L, o, n) == [EmptyPage EXCEPT !.data = Slice(L, o, n)]

\* a list short enough to be walked to its end in MaxFetch calls
InitSlices ==
    /\ engine = "none"
    /\ closure = NoClosure
    /\ qr = NoQueryResult
    /\ it = [fwd |-> NewAutoPaginate(0, 0), bwd |-> NewAutoPaginatePrev(0, 0)]
    /\ firstLog = <<>>
    /\ fwdLog = <<>>
    /\ bwdLog = <<>>
    /\ last = NoCall
    /\ api = NoApiCall
    /\ backend \in {[kind |-> "slices", list |-> Rows(len)] : len \in 0..(MaxItems * MaxFetch)}
    /\ http = NoOperation

\* the row of the backend's list an item of a fetched page is: the k-th item
\* of the page served for offset o is L[o + k]
RowOf(log, item) ==
    LET call == IF item[1] = "first" THEN log[1] ELSE log[item[2] + 1]
    IN  backend.list[call.args[1] + item[3]]

RowsOf(log, items) == [k \in 1..Len(items) |-> RowOf(log, items[k])]

\* the call was answered with the slice it asked for
Sliced(log, call) ==
    /\ call.args[2] # None
    /\ call.resp.ok
    /\ Len(call.resp.page.data) = Len(Slice(backend.list, call.args[1], call.args[2][1]))
    /\ RowsOf(log, call.resp.page.data) = SlicePage(backend.list, call.args[1], call.args[2][1]).data

\* offset_query(fetch_page, start_offset=s, page_size=n) with n >= 1, fetch_page slicing
SliceOffsetQuery ==
    /\ OffsetQuery
    /\ firstLog'[1].args[2] \notin {None, Some(0)}
    /\ Sliced(firstLog', firstLog'[1])
    /\ (Len(backend.list) - firstLog'[1].args[1]) \div firstLog'[1].args[2][1] < MaxFetch

\* the one forward iteration: qr.auto_paginate()
SliceCallAutoPaginate ==
    /\ it.fwd.serial = 0
    /\ CallAutoPaginate

\* next() on the generator, fetch_page slicing
SliceNextForward ==
    /\ NextForward("forward")
    /\ fwdLog' # fwdLog => Sliced(firstLog \o fwdLog', fwdLog'[Len(fwdLog')])

NextSlices ==
    \/ SliceOffsetQuery
    \/ SliceCallAutoPaginate
    \/ SliceNextForward

\* the consumer keeps calling next() until the generator is exhausted
SpecSlices == InitSlices /\ [][NextSlices]_vars /\ WF_vars(NextSlices)

-----------------------------------------------------------------------------
(* Reading the logs *)

RECURSIVE Concat(_)
Concat(ss) == IF ss = <<>> THEN <<>> ELSE Head(ss) \o Concat(Tail(ss))

IsPrefix(s, t) == Len(s) <= Len(t) /\ SubSeq(t, 1, Len(s)) = s

\* the item lists of the pages a log holds (a call that raised brought none)
DataOf(log) == [i \in 1..Len(log) |-> log[i].resp.page.data]

AllOk(log) == \A i \in 1..Len(log) : log[i].resp.ok

\* every fetch_page call of the forward walk, the first fetch included
ForwardCalls == firstLog \o fwdLog

\* the forward walk so far is the work of the first auto_paginate() generator alone
AloneForward == it.fwd.serial = 1 /\ \A i \in 1..Len(fwdLog) : fwdLog[i].by = 1

\* the backward walk so far is the work of the first auto_paginate_prev() generator alone
AloneBackward == it.bwd.serial = 1 /\ \A i \in 1..Len(bwdLog) : bwdLog[i].by = 1

-----------------------------------------------------------------------------
(* C1 *)

\* the calls so far returned k >= 1 pages of n items each and then one empty page
FullThenEmpty(calls, n) ==
    /\ Len(calls) >= 2
    /\ AllOk(calls)
    /\ \A i \in 1..(Len(calls) - 1) : Len(calls[i].resp.page.data) = n
    /\ calls[Len(calls)].resp.page.data = <<>>

OffsetWithPageSize ==
    engine = "offset" /\ closure.page_size # None /\ closure.page_size[1] >= 1

\* C1 as stated: offset pagination with page_size n, the backend serving full
\* pages and then an empty page: once auto_paginate has stopped it has yielded
\* the items of the full pages in order, and it has issued no fetch beyond the
\* full pages (every page it fetched is a full one).
C1_NoFetchBeyondFullPages ==
    (OffsetWithPageSize /\ AloneForward /\ AllOk(ForwardCalls) /\ it.fwd.status = "stopped"
        /\ Len(qr.data) = closure.page_size[1]
        /\ \A i \in 1..Len(ForwardCalls) :
              Len(ForwardCalls[i].resp.page.data) \in {0, closure.page_size[1]})
    => /\ \A i \in 1..Len(ForwardCalls) :
             Len(ForwardCalls[i].resp.page.data) = closure.page_size[1]
       /\ it.fwd.out = Concat(DataOf(ForwardCalls))

\* C1 as amended: offset pagination with page_size n >= 1: when fetch_page has
\* served k full pages and then an empty page, auto_paginate has stopped and
\* has yielded exactly the items of the k full pages, in fetch order and in
\* page order; the empty page is the last page fetched: once a page is empty
\* no continuation, by whomever invoked, fetches again.
C1_FullPagesThenStop ==
    OffsetWithPageSize =>
        /\ \A i \in 1..(Len(ForwardCalls) - 1) :
              ForwardCalls[i].resp.ok => ForwardCalls[i].resp.page.data # <<>>
        /\ (AloneForward /\ FullThenEmpty(ForwardCalls, closure.page_size[1]))
              => /\ it.fwd.status = "stopped"
                 /\ it.fwd.out = Concat(DataOf(ForwardCalls))

\* two full pages, then the empty page, all walked by one generator
C1_Witness ==
    /\ OffsetWithPageSize
    /\ closure.page_size[1] = MaxItems
    /\ AloneForward
    /\ FullThenEmpty(ForwardCalls, MaxItems)
    /\ Len(ForwardCalls) = 3
    /\ it.fwd.status = "stopped"
    /\ Len(it.fwd.out) = 2 * MaxItems

-----------------------------------------------------------------------------
(* C2 *)

\* the closure's `received` is the size of the page fetched most recently
ReceivedIsLastPage ==
    engine = "offset" =>
        \E i \in 1..Len(ForwardCalls) :
            /\ ForwardCalls[i].resp.ok
            /\ closure.received = Len(ForwardCalls[i].resp.page.data)
            /\ \A j \in (i + 1)..Len(ForwardCalls) : ~ForwardCalls[j].resp.ok

\* C2: whenever page_size is set and the page fetched most recently held fewer
\* than page_size items, an invocation of the offset forward continuation, by
\* the caller or by a generator, returns (None, False), calls fetch_page not at
\* all and leaves the running offset as it was.
C2_OffsetShortCircuit ==
    /\ ReceivedIsLastPage
    /\ (engine = "offset" /\ last.op = "fetch_next"
          /\ last.pre.page_size # None /\ last.pre.received < last.pre.page_size[1])
       => /\ last.page = None /\ ~last.flag /\ ~last.raised
          /\ ~last.fetched
          /\ closure.offset = last.pre.offset
          /\ closure = last.pre

\* the caller itself invokes the continuation after a continuation fetch
\* brought a short page
C2_Witness ==
    /\ engine = "offset" /\ last.op = "fetch_next" /\ last.by = 0
    /\ last.pre.page_size # None /\ last.pre.received < last.pre.page_size[1]
    /\ last.pre.received > 0
    /\ Len(fwdLog) >= 1

-----------------------------------------------------------------------------
(* C3 *)

\* a cursor Query Result with has_more_key configured, walked by one generator,
\* no fetch having raised
CursorChain ==
    /\ engine = "cursor" /\ closure.has_more_key
    /\ AloneForward /\ AllOk(ForwardCalls)

\* every page that reports hasMore = true carries a next-cursor token
TokensWithHasMore ==
    \A i \in 1..Len(ForwardCalls) :
        ForwardCalls[i].resp.page.hasMore => Truthy(ForwardCalls[i].resp.page.next)

\* every continuation page that reports hasMore = true carries items
ItemsWithHasMore ==
    \A i \in 2..Len(ForwardCalls) :
        ForwardCalls[i].resp.page.hasMore => ForwardCalls[i].resp.page.data # <<>>

\* C3 as stated: for a chain of pages each carrying hasMore = true and a
\* next-cursor token, auto_paginate stops only at the page carrying
\* hasMore = false, and has then yielded the items of all pages in order.
C3_StopsOnlyAtChainEnd ==
    (CursorChain /\ TokensWithHasMore /\ it.fwd.status = "stopped")
    => /\ ~ForwardCalls[Len(ForwardCalls)].resp.page.hasMore
       /\ it.fwd.out = Concat(DataOf(ForwardCalls))

\* C3 as amended: for a chain of pages each carrying hasMore = true, a
\* non-empty next-cursor token and (after the first page) at least one item,
\* ending with a page carrying hasMore = false: auto_paginate yields the items
\* of the pages in order, first page first; each fetch after the first is made
\* with the token of the page before it; no fetch follows a page carrying
\* hasMore = false; the iteration stops only at that page and has then yielded
\* the items of all pages.
C3_CursorChainWalk ==
    (CursorChain /\ TokensWithHasMore /\ ItemsWithHasMore)
    => /\ \A i \in 1..(Len(ForwardCalls) - 1) : ForwardCalls[i].resp.page.hasMore
       /\ \A i \in 2..Len(ForwardCalls) :
             ForwardCalls[i].args = <<ForwardCalls[i - 1].resp.page.next, None, closure.page_size>>
       /\ IsPrefix(it.fwd.out, Concat(DataOf(ForwardCalls)))
       /\ it.fwd.status # "raised"
       /\ it.fwd.status = "stopped"
             => /\ ~ForwardCalls[Len(ForwardCalls)].resp.page.hasMore
                /\ it.fwd.out = Concat(DataOf(ForwardCalls))

\* a chain of three pages with items, walked to its end
C3_Witness ==
    /\ CursorChain /\ TokensWithHasMore /\ ItemsWithHasMore
    /\ Len(fwdLog) = 2
    /\ it.fwd.status = "stopped"
    /\ Len(it.fwd.out) = 3 * MaxItems
-----------------------------------------------------------------------------
(* C4 *)

\* the stored next-cursor token is what the most recent forward page carried
StoredNextIsLastToken ==
    engine = "cursor" =>
        \E i \in 1..Len(ForwardCalls) :
            /\ ForwardCalls[i].resp.ok
            /\ closure.next_cur = ForwardCalls[i].resp.page.next
            /\ \A j \in (i + 1)..Len(ForwardCalls) : ~ForwardCalls[j].resp.ok

\* C4: whenever the stored next-cursor token is absent, an invocation of the
\* cursor forward continuation returns (None, False), calls fetch_page not at
\* all and changes nothing, whatever hasMore the page reported; when a forward
\* iteration made the invocation, hasMore is false from then on and the
\* iteration has yielded no more than the items fetched before.
C4_DeadCursorShortCircuit ==
    /\ StoredNextIsLastToken
    /\ (engine = "cursor" /\ last.op = "fetch_next" /\ last.pre.next_cur = None)
       => /\ last.page = None /\ ~last.flag /\ ~last.raised
          /\ ~last.fetched
          /\ closure = last.pre
          /\ last.by >= 1
                => /\ ~qr.hasMore
                   /\ it.fwd.status # "raised"
                   /\ AloneForward
                         => /\ IsPrefix(it.fwd.out, qr.data \o Concat(DataOf(fwdLog)))
                            /\ it.fwd.status = "stopped"
                                  => it.fwd.out = qr.data \o Concat(DataOf(fwdLog))

\* the first page reports hasMore = true and carries no token: the iteration
\* yields the first page's items and stops without a second fetch
C4_Witness ==
    /\ engine = "cursor" /\ last.op = "fetch_next" /\ last.by = 1
    /\ last.pre.next_cur = None
    /\ firstLog[1].resp.page.hasMore
    /\ fwdLog = <<>>
    /\ it.fwd.status = "stopped"
    /\ it.fwd.out = qr.data /\ Len(qr.data) = MaxItems
-----------------------------------------------------------------------------
(* C5 *)

\* every fetch_page call of the backward walk, the first fetch included
BackwardCalls == firstLog \o bwdLog

\* the hasPrev the code derives from a page
HasPrevOf(page) == IF closure.has_prev_key THEN page.hasPrev ELSE page.prev # None

\* C5: a backward iteration of a cursor Query Result yields nothing of the
\* current page: what it yields is the items of the older pages in the order
\* the backend returned them.  Each older page is fetched with next = None
\* and prev = the prev-cursor token of the page fetched before it (the first
\* page for the first one), and only when that page had a token, reported
\* hasPrev and, unless it is the first page, had items: an empty page, a
\* false hasPrev or an absent token ends the walk with no further fetch.
C5_BackwardWalk ==
    (engine = "cursor" /\ AloneBackward)
    => /\ IsPrefix(it.bwd.out, Concat(DataOf(bwdLog)))
       /\ \A i \in 2..Len(BackwardCalls) :
             LET before == BackwardCalls[i - 1].resp
             IN  /\ BackwardCalls[i].args = <<None, before.page.prev, closure.page_size>>
                 /\ before.ok
                 /\ Truthy(before.page.prev)
                 /\ HasPrevOf(before.page)
                 /\ i > 2 => before.page.data # <<>>
       /\ it.bwd.status = "stopped"
             => /\ it.bwd.out = Concat(DataOf(bwdLog))
                /\ AllOk(bwdLog)
                /\ ~qr.hasPrev
                      \/ (bwdLog # <<>> /\ bwdLog[Len(bwdLog)].resp.page.data = <<>>)

\* seeded with a starting previous-cursor, two older pages walked to the end
C5_Witness ==
    /\ engine = "cursor" /\ AloneBackward
    /\ firstLog[1].args[2] # None
    /\ Len(bwdLog) = 2 /\ AllOk(bwdLog)
    /\ it.bwd.status = "stopped"
    /\ Len(it.bwd.out) = 2 * MaxItems
    /\ Len(qr.data) = MaxItems
-----------------------------------------------------------------------------
(* C6 *)

Constructed == engine \in {"offset", "cursor"}

\* the step invoked no forward (backward) continuation
NoForwardCall == last' = last \/ last'.op = "fetch_prev"
NoBackwardCall == last' = last \/ last'.op = "fetch_next"

\* resuming the generator now would invoke the continuation
ForwardWouldInvoke ==
    /\ it.fwd.serial > 0 /\ it.fwd.status = "run"
    /\ AutoPaginate(it.fwd, qr, FetchNext(engine, closure, Raised)).invoked

BackwardWouldInvoke ==
    /\ it.bwd.serial > 0 /\ it.bwd.status = "run"
    /\ AutoPaginatePrev(it.bwd, qr, FetchPrev(engine, closure, Raised)).invoked

\* C6: once the hasMore flag of a Query Result is false, no step of any
\* auto_paginate generator of it invokes the forward continuation or makes a
\* fetch: the flag stays false, the forward fetches and the forward
\* continuation's state stay as they are.  The same for hasPrev,
\* auto_paginate_prev and the backward continuation.
C6_NoContinuationOnceFalse ==
    [][ Constructed =>
          /\ ~qr.hasMore =>
                /\ ~ForwardWouldInvoke
                /\ ~qr'.hasMore
                /\ fwdLog' = fwdLog
                /\ NoForwardCall
                /\ closure'.next_cur = closure.next_cur
                /\ closure'.offset = closure.offset
                /\ closure'.received = closure.received
          /\ ~qr.hasPrev =>
                /\ ~BackwardWouldInvoke
                /\ ~qr'.hasPrev
                /\ bwdLog' = bwdLog
                /\ NoBackwardCall
                /\ closure'.prev_cur = closure.prev_cur ]_vars

\* hasMore went false on a fetched page whose items the running generator has
\* all yielded (its next resumption must stop without a call), and a backward
\* generator stopped after a fetch with hasPrev false
C6_Witness ==
    /\ Constructed
    /\ ~qr.hasMore /\ fwdLog # <<>>
    /\ it.fwd.status = "run" /\ it.fwd.pos = "items" /\ it.fwd.idx = Len(it.fwd.items)
    /\ ~qr.hasPrev /\ bwdLog # <<>>
    /\ it.bwd.status = "stopped"
-----------------------------------------------------------------------------
(* C7 *)

\* the pages the generator now held by the consumer has fetched itself
OwnForwardPages ==
    SelectSeq(SubSeq(fwdLog, it.fwd.since + 1, Len(fwdLog)),
              LAMBDA e : e.by = it.fwd.serial)

\* the latest of the first j forward calls that returned a page
LatestOk(j) ==
    CHOOSE i \in 1..j : /\ ForwardCalls[i].resp.ok
                        /\ \A m \in (i + 1)..j : ~ForwardCalls[m].resp.ok

\* no fetch made by a generator repeats the request of an earlier fetch that
\* returned a page
NoRefetch ==
    \A j \in 1..Len(fwdLog) :
        fwdLog[j].by >= 1 =>
            \A i \in 1..j : ForwardCalls[i].resp.ok => ForwardCalls[i].args # fwdLog[j].args

\* an auto_paginate() call made after an earlier generator fetched a page
\* beyond the first
LaterCall ==
    /\ Constructed /\ it.fwd.serial = 2
    /\ \E i \in 1..it.fwd.since : fwdLog[i].by = 1 /\ fwdLog[i].resp.ok

\* C7 as stated: an auto_paginate call made after an earlier one has advanced
\* past the first page re-fetches no page already fetched and yields none of
\* the first page's items (stated for a page size other than 0).
C7_NoFirstPageAgain ==
    (LaterCall /\ closure.page_size # Some(0)) =>
        /\ NoRefetch
        /\ \A k \in 1..Len(it.fwd.out) : it.fwd.out[k][1] # "first"

\* C7 as amended: every auto_paginate call, a later one as well, first yields
\* the items of the first page (QueryResult.data) and then resumes from the
\* current continuation state: what follows the first page's items is, in
\* order, the items of the pages this generator fetched itself, each cursor
\* fetch is made with the token of the latest page fetched by anyone, and
\* (page_size 0 aside) no fetch repeats the request of an earlier fetch that
\* returned a page.
C7_FirstPageThenResume ==
    Constructed =>
        /\ (engine = "offset" /\ closure.page_size = Some(0)) \/ NoRefetch
        /\ engine = "cursor" =>
              \A j \in 1..Len(fwdLog) :
                  fwdLog[j].args = <<ForwardCalls[LatestOk(j)].resp.page.next, None,
                                     closure.page_size>>
        /\ it.fwd.serial >= 1 =>
              /\ IsPrefix(it.fwd.out, qr.data \o Concat(DataOf(OwnForwardPages)))
              /\ it.fwd.status = "stopped"
                    => it.fwd.out = qr.data \o Concat(DataOf(OwnForwardPages))

\* the first generator fetched the second page; a later one has yielded the
\* first page's items again and then the items of the third page
C7_Witness ==
    /\ LaterCall
    /\ engine = "cursor"
    /\ Len(fwdLog) = 2 /\ fwdLog[1].by = 1 /\ fwdLog[2].by = 2
    /\ Len(qr.data) = MaxItems
    /\ it.fwd.out = qr.data \o fwdLog[2].resp.page.data
    /\ Len(it.fwd.out) = 2 * MaxItems
-----------------------------------------------------------------------------
(* C8 *)

\* the flag and the token the code reads off a page for direction d
FlagOf(d, page) ==
    IF d = "next" THEN (IF closure.has_more_key THEN page.hasMore ELSE page.next # None)
                  ELSE (IF closure.has_prev_key THEN page.hasPrev ELSE page.prev # None)

TokenOf(d, page) == IF d = "next" THEN page.next ELSE page.prev

\* One direction run alone against a backend that answers its i-th request
\* with log[i].resp: the requests the walk makes and the items it yields from
\* the i-th request on, flag and token being those of the page before.
RECURSIVE WalkAlone(_, _, _, _, _)
WalkAlone(d, flag, token, log, i) ==
    IF i > Len(log) \/ ~flag \/ ~Truthy(token)
    THEN [args |-> <<>>, out |-> <<>>]
    ELSE LET resp == log[i].resp
             req == IF d = "next" THEN <<token, None, closure.page_size>>
                                  ELSE <<None, token, closure.page_size>>
         IN  IF ~resp.ok \/ resp.page.data = <<>>
             THEN [args |-> <<req>>, out |-> <<>>]
             ELSE LET rest == WalkAlone(d, FlagOf(d, resp.page), TokenOf(d, resp.page),
                                        log, i + 1)
                  IN  [args |-> <<req>> \o rest.args, out |-> resp.page.data \o rest.out]

ArgsOf(log) == [i \in 1..Len(log) |-> log[i].args]

\* what each direction holds
ForwardSide == <<it.fwd, fwdLog, qr.hasMore, closure.next_cur>>
BackwardSide == <<it.bwd, bwdLog, qr.hasPrev, closure.prev_cur>>

\* the interleaved walks made the requests and yielded the items of lone walks
SameAsAlone ==
    engine = "cursor" =>
        LET first == firstLog[1].resp.page
            fwd == WalkAlone("next", FlagOf("next", first), first.next, fwdLog, 1)
            bwd == WalkAlone("prev", FlagOf("prev", first), first.prev, bwdLog, 1)
        IN  /\ AloneForward =>
                  /\ ArgsOf(fwdLog) = fwd.args
                  /\ IsPrefix(it.fwd.out, qr.data \o fwd.out)
                  /\ it.fwd.status = "stopped" => it.fwd.out = qr.data \o fwd.out
            /\ AloneBackward =>
                  /\ ArgsOf(bwdLog) = bwd.args
                  /\ IsPrefix(it.bwd.out, bwd.out)
                  /\ it.bwd.status = "stopped" => it.bwd.out = bwd.out

\* C8: in a cursor Query Result no step touches both directions: a step that
\* changes the forward generator, the forward fetches, hasMore or the stored
\* next-cursor token leaves the backward generator, the backward fetches,
\* hasPrev and the stored prev-cursor token as they are, and conversely, and
\* nothing else of the Query Result or the closure changes.  Under every
\* interleaving each direction makes the requests and yields the items that
\* the direction run alone makes and yields against the same answers.
C8_DirectionsIndependent ==
    [][ engine = "cursor" =>
          /\ ForwardSide' = ForwardSide \/ BackwardSide' = BackwardSide
          /\ [closure' EXCEPT !.next_cur = None, !.prev_cur = None]
                = [closure EXCEPT !.next_cur = None, !.prev_cur = None]
          /\ [qr' EXCEPT !.hasMore = FALSE, !.hasPrev = FALSE]
                = [qr EXCEPT !.hasMore = FALSE, !.hasPrev = FALSE]
          /\ firstLog' = firstLog
          /\ SameAsAlone' ]_vars

\* both directions have fetched and yielded a page in one run, the forward
\* generator making its last continuation call after the backward walk
C8_Witness ==
    /\ engine = "cursor" /\ AloneForward /\ AloneBackward
    /\ Len(fwdLog) = 1 /\ Len(bwdLog) = 1 /\ AllOk(fwdLog) /\ AllOk(bwdLog)
    /\ it.fwd.status = "stopped" /\ Len(it.fwd.out) = 2 * MaxItems
    /\ it.bwd.status = "stopped" /\ Len(it.bwd.out) = MaxItems
    /\ last.op = "fetch_next"
-----------------------------------------------------------------------------
(* C9 *)

\* the pages the backward generator now held by the consumer has fetched itself
OwnBackwardPages ==
    SelectSeq(SubSeq(bwdLog, it.bwd.since + 1, Len(bwdLog)),
              LAMBDA e : e.by = it.bwd.serial)

AllButLast(s) == SubSeq(s, 1, Len(s) - 1)

\* one fetch made the Query Result; a generator has been handed everything
\* of the pages before the page it fetched last
FetchedWhenNeeded ==
    /\ engine = "none" => NumFetches = 0
    /\ engine # "none" => Len(firstLog) = 1
    /\ it.fwd.serial = 0 => fwdLog = <<>>
    /\ it.bwd.serial = 0 => bwdLog = <<>>
    /\ OwnForwardPages # <<>>
          => IsPrefix(qr.data \o Concat(DataOf(AllButLast(OwnForwardPages))), it.fwd.out)
    /\ OwnBackwardPages # <<>>
          => IsPrefix(Concat(DataOf(AllButLast(OwnBackwardPages))), it.bwd.out)

\* C9: making a Query Result calls fetch_page exactly once.  Every later
\* fetch is one step of a generator the consumer resumes (making a generator
\* fetches nothing), one fetch a step, and it is made only when the consumer
\* has been handed every item of the first page and of the pages that
\* generator fetched before.
C9_LazyFetching ==
    [][ /\ FetchedWhenNeeded'
        /\ engine' # engine => Len(firstLog') = 1 /\ fwdLog' = <<>> /\ bwdLog' = <<>>
        /\ engine' = engine => firstLog' = firstLog
        /\ fwdLog' # fwdLog =>
              /\ it.fwd.serial >= 1 /\ it.fwd.status = "run"
              /\ it'.fwd.serial = it.fwd.serial /\ it'.fwd.since = it.fwd.since
              /\ it.fwd.out = qr.data \o Concat(DataOf(OwnForwardPages))
              /\ AllButLast(fwdLog') = fwdLog
              /\ bwdLog' = bwdLog
        /\ bwdLog' # bwdLog =>
              /\ it.bwd.serial >= 1 /\ it.bwd.status = "run"
              /\ it'.bwd.serial = it.bwd.serial /\ it'.bwd.since = it.bwd.since
              /\ it.bwd.out = Concat(DataOf(OwnBackwardPages))
              /\ AllButLast(bwdLog') = bwdLog
              /\ fwdLog' = fwdLog ]_vars

\* a forward generator in the middle of the second page it fetched, and a
\* backward generator made and never resumed although hasPrev is true
C9_Witness ==
    /\ Constructed /\ AloneForward
    /\ Len(qr.data) = MaxItems
    /\ Len(fwdLog) = 2 /\ AllOk(fwdLog)
    /\ Len(it.fwd.out) = 2 * MaxItems + 1
    /\ it.bwd.serial = 1 /\ it.bwd.status = "run" /\ bwdLog = <<>>
    /\ qr.hasPrev /\ Truthy(closure.prev_cur)
-----------------------------------------------------------------------------
(* C10 *)

\* s is not empty and its last call raised, the calls before it returned
EndsRaised(s) ==
    /\ s # <<>>
    /\ ~s[Len(s)].resp.ok
    /\ AllOk(AllButLast(s))

\* a generator has failed exactly when the fetch it made last raised; it has
\* then delivered the items of all pages before and made no fetch since
FailedAtTheFetch ==
    /\ it.fwd.serial >= 1 =>
          /\ it.fwd.status = "raised" <=> EndsRaised(OwnForwardPages)
          /\ it.fwd.status = "raised"
                => it.fwd.out = qr.data \o Concat(DataOf(AllButLast(OwnForwardPages)))
          /\ AllOk(AllButLast(OwnForwardPages))
    /\ it.bwd.serial >= 1 =>
          /\ it.bwd.status = "raised" <=> EndsRaised(OwnBackwardPages)
          /\ it.bwd.status = "raised"
                => it.bwd.out = Concat(DataOf(AllButLast(OwnBackwardPages)))
          /\ AllOk(AllButLast(OwnBackwardPages))

\* C10: when fetch_page raises while an iteration is fetching a page, the
\* generator raises at that very step: it delivers nothing at the step, it
\* has delivered every item of the pages before, and it is finished: it makes
\* no other fetch, neither a retry, and delivers no further item.  The same
\* for a backward iteration.
C10_MidIterationFailure ==
    [][ /\ FailedAtTheFetch'
        /\ (fwdLog' # fwdLog /\ ~fwdLog'[Len(fwdLog')].resp.ok) =>
              /\ it.fwd.status = "run" /\ it'.fwd.status = "raised"
              /\ it'.fwd.out = it.fwd.out
              /\ it.fwd.out = qr.data \o Concat(DataOf(OwnForwardPages))
        /\ (bwdLog' # bwdLog /\ ~bwdLog'[Len(bwdLog')].resp.ok) =>
              /\ it.bwd.status = "run" /\ it'.bwd.status = "raised"
              /\ it'.bwd.out = it.bwd.out
              /\ it.bwd.out = Concat(DataOf(OwnBackwardPages))
        /\ it.fwd.status = "raised" /\ it'.fwd.serial = it.fwd.serial /\ it'.fwd.since = it.fwd.since
              => it'.fwd = it.fwd /\ fwdLog' = fwdLog
        /\ it.bwd.status = "raised" /\ it'.bwd.serial = it.bwd.serial /\ it'.bwd.since = it.bwd.since
              => it'.bwd = it.bwd /\ bwdLog' = bwdLog ]_vars

\* the fetch of the third page raised after two pages were delivered whole
C10_Witness ==
    /\ Constructed /\ AloneForward
    /\ Len(fwdLog) = 2 /\ fwdLog[1].resp.ok /\ ~fwdLog[2].resp.ok
    /\ it.fwd.status = "raised"
    /\ Len(it.fwd.out) = 2 * MaxItems
-----------------------------------------------------------------------------
(* C11 *)

\* offset_query has returned and no continuation has been invoked since
FreshOffsetResult == engine = "offset" /\ last = NoCall

\* C11: offset pagination: whatever page_size (absent, 0 or positive) and
\* start_offset, when the first fetched page holds no items the Query Result
\* offset_query returns holds zero items and its hasMore flag is false.
C11_EmptyFirstPageNoMore ==
    (FreshOffsetResult /\ firstLog[1].resp.page.data = <<>>)
    => /\ qr.data = <<>>
       /\ ~qr.hasMore

-----------------------------------------------------------------------------
(* C19 *)

\* page_size is set and the page holds exactly page_size items
FullPage(page_size, page) == page_size # None /\ Len(page.data) = page_size[1]

-----------------------------------------------------------------------------
(* C20 *)

RECURSIVE ItemsBefore(_, _)
\* the number of items the first j - 1 calls returned
ItemsBefore(calls, j) ==
    IF j <= 1 THEN 0 ELSE ItemsBefore(calls, j - 1) + Len(calls[j - 1].resp.page.data)

\* C20: in every run of offset_query and its forward continuation the offset
\* passed to the j-th call of fetch_page is start_offset plus the number of
\* items calls 1..j-1 returned, and the limit passed to every call is
\* page_size.
C20_OffsetBookkeeping ==
    engine = "offset" =>
        \A j \in 1..Len(ForwardCalls) :
            /\ ForwardCalls[j].args[1] = ForwardCalls[1].args[1] + ItemsBefore(ForwardCalls, j)
            /\ ForwardCalls[j].args[2] = closure.page_size

-----------------------------------------------------------------------------
(* C12 *)

Handled == api.op = "_handle" /\ api.outcome # Pending

Success(resp) == 200 <= resp.status_code /\ resp.status_code < 300

\* C12: for every response whose status is outside [200,300), whatever its
\* body, _handle raises SidemailError carrying httpStatus equal to the
\* response status; it returns no value and raises no other exception.
C12_FailureRaisesSidemailError ==
    (Handled /\ ~Success(api.arg))
        => /\ api.outcome.kind = "raise"
           /\ api.outcome.exc.class = "SidemailError"
           /\ api.outcome.exc.httpStatus = Num(api.arg.status_code)

-----------------------------------------------------------------------------
(* C13 *)

\* C13 as stated: for every response with status in [200,300), _handle raises
\* no error and returns None exactly when the body content is empty, the raw
\* text exactly when content is present and does not parse as JSON, and
\* wrap(parsed) exactly when content is present and parses as JSON.
C13_NoneExactlyWhenEmpty ==
    (Handled /\ Success(api.arg))
        => LET text == api.arg.text
               json == ParseJson(text)
           IN  /\ api.outcome.kind = "return"
               /\ api.outcome.value = Null <=> text = ""
               /\ api.outcome.value = Str(text) <=> (text # "" /\ ~json.ok)
               /\ (text # "" /\ json.ok) => api.outcome.value = WrapAny(json.value)

\* C13, amended: no error is raised; the result is None when the content is
\* empty, the raw text when content is present and does not parse, and
\* wrap(parsed) when it parses; None is returned exactly when the content is
\* empty or is the JSON literal null, whose wrap is None.
C13_SuccessPath ==
    (Handled /\ Success(api.arg))
        => LET text == api.arg.text
               json == ParseJson(text)
           IN  /\ api.outcome.kind = "return"
               /\ text = "" => api.outcome.value = Null
               /\ (text # "" /\ ~json.ok) => api.outcome.value = Str(text)
               /\ (text # "" /\ json.ok) => api.outcome.value = WrapAny(json.value)
               /\ api.outcome.value = Null <=> (text = "" \/ json = Parsed(Null))

\* a body of nested JSON came back wrapped, keys mangled
C13_Witness ==
    /\ Handled
    /\ api.arg = [status_code |-> 204, text |-> "[{\"class\": 1}]"]
    /\ api.outcome = Return(List(<<Resource(Dict(<<<<"class", Num(1)>>>>))>>))

-----------------------------------------------------------------------------
(* C14 *)

RaisedSidemailError ==
    /\ Handled
    /\ api.outcome.kind = "raise"
    /\ api.outcome.exc.class = "SidemailError"

\* C14: the error raised for a non-2xx response carries the full raw payload,
\* readable from the error object: the parsed JSON body, or, when the body does
\* not parse, the synthesized payload whose developerMessage is the raw text.
C14_ErrorCarriesPayload ==
    RaisedSidemailError
        => /\ "payload" \in DOMAIN api.outcome.exc
           /\ api.outcome.exc.payload = ErrorPayload(api.arg)

-----------------------------------------------------------------------------
(* C15 *)

AuthStatuses == {401, 403}

\* C15: a response with status 401 or 403 raises an error of the class
\* SidemailAuthError, every other non-2xx status one of the class
\* SidemailAPIError, and no status yields both.
C15_ErrorClassByStatus ==
    (Handled /\ ~Success(api.arg) /\ ErrorPayload(api.arg).t = "dict")
        => /\ api.outcome.kind = "raise"
           /\ api.outcome.exc.class =
                  IF api.arg.status_code \in AuthStatuses
                  THEN "SidemailAuthError"
                  ELSE "SidemailAPIError"

-----------------------------------------------------------------------------
(* C16 *)

\* C16: for every nested JSON-like object x, keys that are reserved words or
\* no identifiers included, Resource(x).to_dict() == x: the original keys are
\* recovered, scalars unchanged, list structure and order preserved.
C16_RoundTrip ==
    api.op = "to_dict" => PyEq(api.outcome.value, api.arg)

-----------------------------------------------------------------------------
(* C17 *)

Wrapped == api.op = "Resource" /\ api.outcome.kind = "return"

\* the name the rule gives a key: the key itself when it is an identifier and
\* no reserved word, the key followed by "_" otherwise
Exposed(key) == IF IsIdentifier(key) /\ ~IsKeyword(key) THEN key ELSE key \o "_"

\* C17: a wrapped object exposes a key under key + "_" if and only if the key
\* is no valid identifier or is a reserved word, and under its own name
\* otherwise; the raw view still maps every original key to its original value.
C17_KeyMangling ==
    Wrapped
        => LET x == api.arg.v
               self == api.outcome.value
           IN  /\ KeysOf(self.v) = {Exposed(k) : k \in KeysOf(x)}
               /\ \A k \in KeysOf(x) :
                      /\ (\A other \in KeysOf(x) \ {k} : Exposed(other) # Exposed(k))
                             => Get(self.v, Exposed(k)) = WrapAny(Get(x, k))
                      /\ Get(self.raw.v, k) = Get(x, k)
               /\ KeysOf(self.raw.v) = KeysOf(x)

\* a reserved word and a key that is no identifier, both exposed with the
\* suffix, both kept as they were in the raw view
C17_Witness ==
    /\ Wrapped
    /\ KeysOf(api.arg.v) = {"class", "1abc"}
    /\ KeysOf(api.outcome.value.v) = {"class_", "1abc_"}
    /\ KeysOf(api.outcome.value.raw.v) = {"class", "1abc"}
    /\ api.outcome.value.raw = api.arg

-----------------------------------------------------------------------------
(* C18 *)

Constructing == api.op = "Sidemail" /\ api.outcome # Pending

\* absent or empty
NoKey(value) == value \in {Null, Str("")}

\* C18: with no explicit API key (absent or empty) and no environment value
\* (absent or empty), constructing Sidemail raises the configuration error and
\* no transport has been created; otherwise construction succeeds with the
\* explicit key when one is given and the environment value only when none is.
C18_Construction ==
    Constructing
        => IF NoKey(api.arg.api_key) /\ NoKey(api.arg.env)
           THEN /\ api.outcome.kind = "raise"
                /\ api.outcome.exc.class = "SidemailError"
                /\ api.clients = 0
           ELSE /\ api.outcome.kind = "return"
                /\ api.outcome.value.api_key =
                       IF NoKey(api.arg.api_key) THEN api.arg.env ELSE api.arg.api_key
                /\ api.outcome.value.http =
                       IF api.arg.session = Null THEN OwnClient ELSE api.arg.session
                /\ api.clients = IF api.arg.session = Null THEN 1 ELSE 0

\* an empty key, no environment value and no session given: the error is
\* raised and no httpx.Client() was made
C18_Witness ==
    /\ Constructing
    /\ api.arg = [api_key |-> Str(""), env |-> Null, session |-> Null]
    /\ api.outcome = Raise(MissingApiKey)
    /\ api.clients = 0

-----------------------------------------------------------------------------
(* C21 *)

\* C21: if fetch_page raises during an invocation of the offset forward
\* continuation, the running offset and the last-received count are what they
\* were before that invocation, so that the next invocation requests the same
\* offset again.
C21_OffsetKeptOnError ==
    (engine = "offset" /\ last.op = "fetch_next" /\ last.raised)
        => /\ closure.offset = last.pre.offset
           /\ closure.received = last.pre.received
           /\ fwdLog[Len(fwdLog)].args[1] = closure.offset + closure.received

-----------------------------------------------------------------------------
(* C22 *)

\* the latest of the first j calls of a walk that returned a page
LatestPage(calls, j) ==
    calls[CHOOSE i \in 1..j : /\ calls[i].resp.ok
                              /\ \A m \in (i + 1)..j : ~calls[m].resp.ok].resp.page

StartCursors == {Token("start", 0, "next"), Token("start", 0, "prev")}

\* C22: the starting cursors are used for the first fetch only.  Every forward
\* continuation fetch calls fetch_page(t, None, page_size) with t the
\* next-cursor token of the forward page fetched most recently (the first page
\* for the first continuation), every backward fetch calls
\* fetch_page(None, t', page_size) with t' the prev-cursor token of the
\* backward page fetched most recently; no starting cursor is sent again.
C22_TokenSupersession ==
    engine = "cursor"
        => /\ \A j \in 2..Len(ForwardCalls) :
                 /\ ForwardCalls[j].args =
                        <<LatestPage(ForwardCalls, j - 1).next, None, closure.page_size>>
                 /\ \A c \in StartCursors : Some(c) \notin
                        {ForwardCalls[j].args[1], ForwardCalls[j].args[2]}
           /\ \A j \in 2..Len(BackwardCalls) :
                 /\ BackwardCalls[j].args =
                        <<None, LatestPage(BackwardCalls, j - 1).prev, closure.page_size>>
                 /\ \A c \in StartCursors : Some(c) \notin
                        {BackwardCalls[j].args[1], BackwardCalls[j].args[2]}
           /\ closure.next_cur = LatestPage(ForwardCalls, Len(ForwardCalls)).next
           /\ closure.prev_cur = LatestPage(BackwardCalls, Len(BackwardCalls)).prev

\* seeded with both starting cursors, one page fetched in each direction, each
\* with the token of the first page
C22_Witness ==
    /\ engine = "cursor"
    /\ firstLog[1].args = <<Some(Token("start", 0, "next")), Some(Token("start", 0, "prev")),
                            Some(MaxItems)>>
    /\ Len(fwdLog) = 1 /\ Len(bwdLog) = 1
    /\ fwdLog[1].resp.ok /\ bwdLog[1].resp.ok
    /\ fwdLog[1].args = <<Some(Token("first", 0, "next")), None, Some(MaxItems)>>
    /\ bwdLog[1].args = <<None, Some(Token("first", 0, "prev")), Some(MaxItems)>>

-----------------------------------------------------------------------------
(* C23 *)

\* L[s ..], the items from the start offset on
Tail_(L, s) == SubSeq(L, s + 1, Len(L))

\* C23: against a backend that serves a fixed finite list L by slicing, with
\* page_size n >= 1 and start_offset s >= 0, forward iteration over
\* offset_query terminates and yields exactly L[s ..] in order, each item once,
\* also when the number of remaining items is an exact multiple of n.
C23_OffsetIterationComplete ==
    /\ [](engine = "offset"
            => /\ IsPrefix(RowsOf(ForwardCalls, it.fwd.out),
                           Tail_(backend.list, firstLog[1].args[1]))
               /\ it.fwd.status # "raised"
               /\ it.fwd.status = "stopped"
                      => RowsOf(ForwardCalls, it.fwd.out)
                             = Tail_(backend.list, firstLog[1].args[1]))
    /\ <>(it.fwd.status = "stopped")

\* four items left, page size two: two full pages, an empty third, all four
\* items yielded
C23_Witness ==
    /\ engine = "offset"
    /\ backend.kind = "slices" /\ Len(backend.list) = 2 * MaxItems
    /\ firstLog[1].args = <<0, Some(MaxItems)>>
    /\ Len(fwdLog) = 2 /\ fwdLog[2].resp.page.data = <<>>
    /\ it.fwd.status = "stopped"
    /\ RowsOf(ForwardCalls, it.fwd.out) = backend.list

-----------------------------------------------------------------------------
(* C24 *)

\* what a continuation handed back is no page, or a page without items
NoItems(call) == ~call.raised /\ (call.page = None \/ call.page[1].data = <<>>)

\* the step resumed the forward (backward) generator, which invoked its
\* continuation
ForwardInvoked ==
    /\ ForwardWouldInvoke
    /\ it'.fwd # it.fwd
    /\ it'.fwd # NewAutoPaginate(it'.fwd.serial, Len(fwdLog'))

BackwardInvoked ==
    /\ BackwardWouldInvoke
    /\ it'.bwd # it.bwd
    /\ it'.bwd # NewAutoPaginatePrev(it'.bwd.serial, Len(bwdLog'))

\* C24: in forward and in backward iteration, when the continuation returns
\* something that is no page, or a page whose item list is empty or missing,
\* the iteration ends at once: it yields no further item and makes no further
\* fetch, even if the flag returned with the page says more items exist.
C24_EmptyPageTerminal ==
    [][ /\ (ForwardInvoked /\ NoItems(last'))
            => /\ it'.fwd.status = "stopped"
               /\ it'.fwd.out = it.fwd.out
               /\ qr'.hasMore = last'.flag
        /\ (BackwardInvoked /\ NoItems(last'))
            => /\ it'.bwd.status = "stopped"
               /\ it'.bwd.out = it.bwd.out
               /\ qr'.hasPrev = last'.flag
        /\ it.fwd.status = "stopped"
            => /\ fwdLog' = fwdLog
               /\ it'.fwd = it.fwd \/ it'.fwd = NewAutoPaginate(it'.fwd.serial, Len(fwdLog))
        /\ it.bwd.status = "stopped"
            => /\ bwdLog' = bwdLog
               /\ it'.bwd = it.bwd \/ it'.bwd = NewAutoPaginatePrev(it'.bwd.serial, Len(bwdLog))
      ]_vars

\* a forward iteration ended by an empty page that came with hasMore = true,
\* a backward one by a continuation that returned no page
C24_Witness ==
    /\ engine = "cursor"
    /\ it.fwd.status = "stopped" /\ it.bwd.status = "stopped"
    /\ Len(fwdLog) = 1 /\ fwdLog[1].resp.ok
    /\ fwdLog[1].resp.page.data = <<>> /\ fwdLog[1].resp.page.hasMore
    /\ qr.hasMore
    /\ bwdLog = <<>> /\ last.op = "fetch_prev" /\ last.by = 1 /\ last.page = None

-----------------------------------------------------------------------------
(* C25 *)

\* the flags the rule gives a page
MoreForward(page) == IF closure.has_more_key THEN page.hasMore ELSE page.next # None
MoreBackward(page) == IF closure.has_prev_key THEN page.hasPrev ELSE page.prev # None

\* no generator has touched the flags of the Query Result
Untouched == it.fwd.serial = 0 /\ it.bwd.serial = 0

\* C25: for the first page and for every page fetched by a cursor
\* continuation, the reported more-forward flag is the truth value of the
\* page's has-more field when a has-more field name is configured, and "the
\* page's next-cursor token is present" when none is; the more-backward flag is
\* computed the same way from the has-prev field and the prev-cursor token.
C25_CursorFlags ==
    engine = "cursor"
        => /\ Untouched => /\ qr.hasMore = MoreForward(firstLog[1].resp.page)
                           /\ qr.hasPrev = MoreBackward(firstLog[1].resp.page)
           /\ (last.op = "fetch_next" /\ last.fetched /\ ~last.raised)
                  => /\ last.page = Some(fwdLog[Len(fwdLog)].resp.page)
                     /\ last.flag = MoreForward(last.page[1])
           /\ (last.op = "fetch_prev" /\ last.fetched /\ ~last.raised)
                  => /\ last.page = Some(bwdLog[Len(bwdLog)].resp.page)
                     /\ last.flag = MoreBackward(last.page[1])

\* no has-prev field configured: a page with an empty prev-cursor token
\* reports more-backward
C25_Witness ==
    /\ engine = "cursor"
    /\ ~closure.has_prev_key
    /\ last.op = "fetch_prev" /\ last.fetched /\ ~last.raised
    /\ last.page[1].prev = Some(EmptyStr)
    /\ ~last.page[1].hasPrev
    /\ last.flag
    /\ fwdLog # <<>>

-----------------------------------------------------------------------------
(* C26 *)

\* C26: for every object with pairwise distinct keys, the wrapped Resource
\* exposes one entry per original key, distinct original keys are exposed
\* under distinct names, and each original value is retrievable under its
\* (possibly mangled) name.
C26_NoDataLoss ==
    Wrapped
        => LET x == api.arg.v
               self == api.outcome.value
           IN  /\ Len(self.v) = Len(x)
               /\ \A k1, k2 \in KeysOf(x) : k1 # k2 => SafeAttr(k1) # SafeAttr(k2)
               /\ \A k \in KeysOf(x) : Get(self.v, SafeAttr(k)) = WrapAny(Get(x, k))

-----------------------------------------------------------------------------
(* C27 *)

\* the body parsed to an object
ObjectBody(resp) == ParseJson(resp.text).ok /\ ParseJson(resp.text).value.t = "dict"

\* the value of a field of the body, None when the body has no such field
BodyField(resp, name) ==
    IF ObjectBody(resp) THEN Get(ParseJson(resp.text).value.v, name) ELSE Null

\* the message the rule derives from a response
DerivedMessage(resp) ==
    IF ParseJson(resp.text).ok
    THEN IF PyTruthy(BodyField(resp, "developerMessage"))
         THEN BodyField(resp, "developerMessage")
         ELSE Str("HTTP " \o ToString(resp.status_code))
    ELSE IF resp.text # "" THEN Str(resp.text) ELSE Str("Unknown error")

\* C27: for a non-2xx response the raised error's message is the body's
\* developerMessage when the body parses and that field is non-empty,
\* otherwise "HTTP <status>"; when the body does not parse, the message is the
\* raw text, or "Unknown error" when the raw text is empty; errorCode and
\* moreInfo are the body's fields of those names, or absent.
C27_ErrorMessage ==
    (Handled /\ ~Success(api.arg))
        => /\ api.outcome.kind = "raise"
           /\ "message" \in DOMAIN api.outcome.exc
           /\ api.outcome.exc.message = DerivedMessage(api.arg)
           /\ api.outcome.exc.errorCode = BodyField(api.arg, "errorCode")
           /\ api.outcome.exc.moreInfo = BodyField(api.arg, "moreInfo")

-----------------------------------------------------------------------------
(* C30 *)

\* the fields of the Query Result as its constructor set them
AsConstructed ==
    LET first == firstLog[1]
    IN  /\ qr.page = first.resp.page
        /\ qr.data = first.resp.page.data
        /\ qr.total = first.resp.page.total
        /\ qr.offset = None
        /\ engine = "cursor"
              => /\ qr.paginationCursorNext = first.resp.page.next
                 /\ qr.paginationCursorPrev = first.resp.page.prev
                 /\ qr.limit = first.args[3]
        /\ engine = "offset"
              => /\ qr.paginationCursorNext = None
                 /\ qr.paginationCursorPrev = None
                 /\ qr.limit = None

\* C30: forward and backward iteration change only the hasMore / hasPrev
\* flags of the Query Result and the private continuation state: after any
\* sequence of iteration steps the data, page, total, limit, offset,
\* paginationCursorNext and paginationCursorPrev of the Query Result are what
\* they were when it was made from the first fetched page.
C30_IterationFrame ==
    [][ /\ Constructed
            => /\ qr' = [qr EXCEPT !.hasMore = qr'.hasMore, !.hasPrev = qr'.hasPrev]
               /\ firstLog' = firstLog
        /\ Constructed' => AsConstructed'
      ]_vars

\* a page fetched in each direction, both flags turned false, the Query
\* Result still showing the first page
C30_Witness ==
    /\ engine = "cursor"
    /\ Len(fwdLog) = 1 /\ fwdLog[1].resp.ok /\ fwdLog[1].resp.page.data # <<>>
    /\ Len(bwdLog) = 1 /\ bwdLog[1].resp.ok /\ bwdLog[1].resp.page.data # <<>>
    /\ firstLog[1].resp.page.hasMore /\ ~qr.hasMore
    /\ firstLog[1].resp.page.hasPrev /\ ~qr.hasPrev
    /\ AsConstructed
    /\ qr.total = Present("first", 0, "total")
    /\ qr.paginationCursorNext = Present("first", 0, "next")
-----------------------------------------------------------------------------
(* C28 *)

\* the payload the fetch closure of search / list sent for a logged fetch_page call
RequestOf(call) == Fetch(http.base_payload, call.args[1], call.args[2], call.args[3])

\* a cursor the caller gave: present and not the empty string
CallerCursor(entry) == IF Truthy(Pop(entry)) THEN entry ELSE Absent

\* C28: email.search / contacts.list send, on the first request, the caller's
\* filters and limit and each cursor the caller gave (both when both are
\* given); every later request carries the filters and the limit of the first
\* and, as its only cursor, the current token of the direction walked: the
\* next-cursor token of the latest forward page and no prev cursor, or the
\* prev-cursor token of the latest backward page and no next cursor.
C28_RequestBuilding ==
    (http.op \in CursorOps /\ firstLog # <<>>)
        => LET first == RequestOf(firstLog[1])
           IN  /\ first.filters = http.params.filters
               /\ first.limit = http.params.limit
               /\ first.paginationCursorNext = CallerCursor(http.params.paginationCursorNext)
               /\ first.paginationCursorPrev = CallerCursor(http.params.paginationCursorPrev)
               /\ \A j \in 1..Len(fwdLog) :
                     LET q == RequestOf(fwdLog[j])
                     IN  /\ q.filters = first.filters /\ q.limit = first.limit
                         /\ q.paginationCursorNext = Given(LatestPage(ForwardCalls, j).next)
                         /\ Truthy(LatestPage(ForwardCalls, j).next)
                         /\ q.paginationCursorPrev = Absent
               /\ \A j \in 1..Len(bwdLog) :
                     LET q == RequestOf(bwdLog[j])
                     IN  /\ q.filters = first.filters /\ q.limit = first.limit
                         /\ q.paginationCursorPrev = Given(LatestPage(BackwardCalls, j).prev)
                         /\ Truthy(LatestPage(BackwardCalls, j).prev)
                         /\ q.paginationCursorNext = Absent

\* a search with a filter, a limit and both cursors, walked one page forward
\* and one page backward
C28_Witness ==
    /\ http.op = "email.search"
    /\ http.params.filters # <<>>
    /\ RequestOf(firstLog[1]).paginationCursorNext = Given(Some(Token("start", 0, "next")))
    /\ RequestOf(firstLog[1]).paginationCursorPrev = Given(Some(Token("start", 0, "prev")))
    /\ RequestOf(firstLog[1]).limit = Given(Some(MaxItems))
    /\ Len(fwdLog) >= 1 /\ Len(bwdLog) >= 1
    /\ fwdLog[1].resp.ok /\ bwdLog[1].resp.ok
    /\ RequestOf(fwdLog[1]).paginationCursorNext = Given(Some(Token("first", 0, "next")))
    /\ RequestOf(bwdLog[1]).paginationCursorPrev = Given(Some(Token("first", 0, "prev")))
-----------------------------------------------------------------------------
(* C29 *)

\* the transport raised, or answered with a status outside [200, 300)
FailedAnswer(answer) ==
    \/ answer.kind = "error"
    \/ /\ answer.kind = "response"
       /\ ~(200 <= answer.resp.status_code /\ answer.resp.status_code < 300)

\* C29: a non-paginated operation sends exactly one request and ends in one
\* outcome, which is the outcome of that request: when the transport raises
\* the error is passed on, when it answers with an error status the
\* operation raises, and in neither case is a second request sent; one
\* invocation of a pagination continuation adds at most one fetch.
C29_OneRequestOneOutcome ==
    [][ /\ http'.op \in DirectOps
            => /\ Len(http'.sent) = 1
               /\ http'.outcome.kind \in {"return", "raise"}
               /\ http'.answers[1].kind = "error"
                      => http'.outcome = Raise(TransportException)
               /\ FailedAnswer(http'.answers[1]) => http'.outcome.kind = "raise"
               /\ ~FailedAnswer(http'.answers[1]) => http'.outcome.kind = "return"
        /\ Len(fwdLog') + Len(bwdLog') <= Len(fwdLog) + Len(bwdLog) + 1 ]_vars

\* a send answered with status 500 whose second attempt would have been
\* answered with status 200
C29_Witness ==
    /\ http.op = "email.send"
    /\ http.answers[1].kind = "response" /\ http.answers[1].resp.status_code = 500
    /\ http.answers[2].kind = "response" /\ http.answers[2].resp.status_code = 200
    /\ Len(http.sent) = 1
    /\ http.outcome.kind = "raise"

====
